---- MODULE Spec2Model ----
(***************************************************************************)
(* Verification model of vsslctrl: the connection manager (APIBase), the   *)
(* event bus (EventBus), the dedup-and-publish property setters and the    *)
(* two protocol framers (APIAlpha / APIBravo).                             *)
(*                                                                         *)
(* asyncio is modelled as cooperative tasks: every action is the code that *)
(* one task runs between two suspension points (await of socket I/O, of a  *)
(* queue get or of a sleep).  Task.cancel() only sets a flag; the          *)
(* CancelledError is delivered when the cancelled task is next resumed.    *)
(***************************************************************************)
EXTENDS Integers, Sequences, FiniteSets, TLC

\* ---------------------------------------------------------------------------
\* Bounds of the model
\* ---------------------------------------------------------------------------
MaxCalls == 3
MaxSockets == 2
MaxAttempts == 2
MaxQueue == 1
MaxSubscriptions == 2
MaxPublish == 2
MaxFrames == 2
MaxConnections == 2
MaxSend == 2

None == 0

VARIABLES
    api,        \* the APIBase object, its asyncio tasks and its sockets
    calls,      \* number of connect() / disconnect() calls made by callers
    clean,      \* no caller has invoked connect() since the last disconnect() began
    terminal    \* an explicit disconnect() has returned and clean held throughout

VARIABLES
    subscribers,    \* EventBus.subscribers: event type -> list of (callback, entity, once)
    event_queue,    \* EventBus.event_queue
    publish_tasks,  \* the tasks created by publish() that have not run yet
    running,        \* EventBus.running
    bus_pc,         \* position of the process_events task
    futures,        \* the asyncio.Future of every future() call
    bus_log         \* history of the bus: what was published, delivered, stopped

connVars == <<api, calls, clean, terminal>>
busVars == <<subscribers, event_queue, publish_tasks, running, bus_pc, futures, bus_log>>

\* Property updates (zone.py, data_structure.py, core.py):
\*   zone      the Zone object: _volume, _mute and the _disabled flag of its settings
\*   vssl      the Vssl object: _sw_version
\*   prop_log  the last update applied: its arguments, the objects before it and
\*             the events it passed to the event bus
VARIABLES zone, vssl, prop_log

\* Frame reader (api_base.py, api_alpha.py, api_bravo.py):
\*   proto       the protocol of the connection: "alpha" or "bravo"
\*   frames      the frames the device sends, in order
\*   wire        the bytes of these frames that have not arrived yet
\*   buffer      the bytes the StreamReader holds
\*   rx          the receive loop: its position, the bytes read of the frame, its length
\*   dispatched  the calls of the response handlers, in order
\*   eof         the peer has closed the connection (feed_eof)
\*   lost        the connections that ended with a short read: their number,
\*               and whether the last one had received bytes of an incomplete frame
VARIABLES proto, frames, wire, buffer, rx, dispatched, eof, lost

propVars == <<zone, vssl, prop_log>>
frameVars == <<proto, frames, wire, buffer, rx, dispatched, eof, lost>>
vars == <<connVars, busVars, propVars, frameVars>>

\* ---------------------------------------------------------------------------
\* Connection manager (api_base.py)
\* ---------------------------------------------------------------------------
Range(s) == {s[i] : i \in DOMAIN s}

\* asyncio.create_task(): a task is a record; its id is its index in api.tasks
NewTask(k, p) == [kind |-> k, pc |-> p, cancel |-> FALSE, result |-> "none"]

TaskDone(S, i) == S.tasks[i].pc = "done"

\* utils.cancel_task: task.cancel() when the task exists and is not done
cancel_task(S, i) ==
    IF i # None /\ ~TaskDone(S, i)
    THEN [S EXCEPT !.tasks[i].cancel = TRUE]
    ELSE S

\* APITaskGroup.cancel: cancel every task of the group, then forget them
APITaskGroup_cancel(S) ==
    [S EXCEPT !.tasks = [i \in DOMAIN S.tasks |->
                            IF i \in Range(S.group_tasks) /\ S.tasks[i].pc # "done"
                            THEN [S.tasks[i] EXCEPT !.cancel = TRUE]
                            ELSE S.tasks[i]],
              !.group_tasks = <<>>]

\* APITaskGroup.extend([_receive_first_byte, _send_bytes, _send_keepalive_base])
APITaskGroup_extend(S) ==
    LET n == Len(S.tasks)
    IN [S EXCEPT !.tasks = @ \o <<NewTask("recv", "start"),
                                  NewTask("send", "start"),
                                  NewTask("ka", "start")>>,
                 !.group_tasks = @ \o <<n + 1, n + 2, n + 3>>]

_cancel_keep_connected(S) ==
    [cancel_task(S, S.keep_connected_task) EXCEPT !.reconnection_attempts = 0]

_is_keep_connected_running(S) ==
    S.keep_connected_task # None /\ ~TaskDone(S, S.keep_connected_task)

_reconnecting(S) == S.disconnecting \/ S.connecting

_keep_connected(S) ==
    IF ~_is_keep_connected_running(S)
    THEN [S EXCEPT !.tasks = Append(@, NewTask("kc", "start")),
                   !.keep_connected_task = Len(S.tasks) + 1]
    ELSE S

\* the request queued by _send_keepalive; the messages of the producers are
\* numbered from 1
KEEPALIVE == 0

\* APIBase.send: queue the data only while connected
send_always(S, data) == [S EXCEPT !.writer_queue = Append(@, data)]
send(S, data) ==
    IF S.connected THEN [S EXCEPT !.writer_queue = Append(@, data)] ELSE S

\* connect(), lines 99-112 and the finally clause: the socket was opened
connect_success(S) ==
    LET sock == S.nsock + 1
        S1 == [S EXCEPT !.nsock = sock, !.open = @ \cup {sock},
                        !.reader = sock, !.writer = sock,
                        !.connected = TRUE]
        S2 == _cancel_keep_connected(S1)
        S3 == APITaskGroup_extend(S2)
    IN [S3 EXCEPT !.connecting = FALSE]

\* connect(), lines 116-133: any except clause, then the finally clause
connect_failure(S) ==
    [S EXCEPT !.connected = FALSE, !.connecting = FALSE]

\* disconnect(), lines 171-177: after the close was awaited
disconnect_end(S) ==
    [S EXCEPT !.writer = None, !.reader = None, !.disconnecting = FALSE]

\* disconnect(), lines 142-156: up to the await of wait_closed(); when there
\* is no writer the whole of disconnect() runs without suspending
disconnect_begin(S) ==
    LET S1 == [S EXCEPT !.disconnecting = TRUE]
        S2 == _cancel_keep_connected(S1)
        S3 == [S2 EXCEPT !.connected = FALSE]
        S4 == APITaskGroup_cancel(S3)
    IN IF S4.writer # None
       THEN [S4 EXCEPT !.open = @ \ {S4.writer}]
       ELSE disconnect_end(S4)

\* task i resumes and runs to its next suspension point p
SetTask(S, i, p) == [S EXCEPT !.tasks[i].pc = p, !.tasks[i].cancel = FALSE]

\* the coroutine of task i ends; r is how it ended
EndTask(S, i, r) ==
    [S EXCEPT !.tasks[i].pc = "done", !.tasks[i].cancel = FALSE,
              !.tasks[i].result = r]

\* reconnect() called by loop task i: the part that runs before suspending.
\* The task is left at "closing" when disconnect() awaits the close, else at
\* the pc `after` with reconnect() completed.
reconnect(S, i, after) ==
    IF ~_reconnecting(S) /\ ~_is_keep_connected_running(S)
    THEN IF S.writer # None
         THEN [disconnect_begin(S) EXCEPT !.tasks[i].pc = "closing"]
         ELSE LET S1 == _keep_connected(disconnect_begin(S))
              IN [S1 EXCEPT !.tasks[i].pc = after]
    ELSE [S EXCEPT !.tasks[i].pc = after]

\* a loop task that called reconnect() and did not suspend goes on
Finish(S, i) ==
    IF S.tasks[i].pc = "closing" THEN S ELSE EndTask(S, i, "ok")

InitApi ==
    [connected |-> FALSE, connecting |-> FALSE, disconnecting |-> FALSE,
     reader |-> None, writer |-> None, writer_queue |-> <<>>,
     keep_alive_received |-> FALSE, keep_connected_task |-> None,
     reconnection_attempts |-> 0, backoff |-> 0, group_tasks |-> <<>>,
     tasks |-> <<>>, open |-> {}, nsock |-> 0,
     accepted |-> <<>>, refused |-> {}, written |-> <<>>, requested |-> <<>>]

LoopKinds == {"recv", "send", "ka"}
OpenFailures == {"timeout", "refused", "oserror"}

Tasks == DOMAIN api.tasks
At(i, k, p) == api.tasks[i].kind = k /\ api.tasks[i].pc = p
Cancelled(i) == api.tasks[i].cancel

\* The event loop runs what is already scheduled (the first step of a new
\* task, the wake-up of a cancelled task) before it polls for I/O and
\* timers, in the order in which it was scheduled.
Ready(i) ==
    /\ api.tasks[i].pc # "done"
    /\ api.tasks[i].pc = "start" \/ api.tasks[i].cancel
Scheduled(i) == Ready(i) /\ \A j \in Tasks : Ready(j) => i <= j
Polled(i) == ~Ready(i) /\ \A j \in Tasks : ~Ready(j)

\* ---------------------------------------------------------------------------
\* Event bus (event_bus.py): state
\* ---------------------------------------------------------------------------
ENone == "None"
WILDCARD == "*"
EventTypes == {"a", WILDCARD}
FutureIds == {"f1"}
PlainCallbacks == {"p", "q"}
RaisingCallbacks == {"bad"}

\* EventBus.__init__
BusIdle ==
    /\ subscribers = [t \in EventTypes |-> <<>>]
    /\ event_queue = <<>>
    /\ publish_tasks = <<>>
    /\ running = FALSE
    /\ bus_pc = "start"
    /\ futures = [f \in FutureIds |-> [state |-> "none", result |-> 0, created |-> 0]]
    /\ bus_log = [published |-> <<>>, delivered |-> [c \in PlainCallbacks |-> <<>>],
                  stopped |-> FALSE, after_stop |-> FALSE]

\* APIBase.__init__: no connection, no task
ConnIdle ==
    /\ api = InitApi
    /\ calls = 0
    /\ clean = FALSE
    /\ terminal = FALSE

\* Zone.__init__ and ZoneSettings.__init__
\* None as the value of a name; names are sequences of bytes
NoName == <<-1>>
\* "Zone 1", "Analog In 1", "Optical In"
DefaultZoneName == <<90, 111, 110, 101, 32, 49>>
DefaultAnalogInputName == <<65, 110, 97, 108, 111, 103, 32, 73, 110, 32, 49>>
DefaultOpticalInputName == <<79, 112, 116, 105, 99, 97, 108, 32, 73, 110>>

NoSerial == None

\* Zone.initialise has not been called
\* poller: the RepeatTimer of the ZonePoller; connect_error: a connect() of
\* the zone has raised; published: the INITIALISED events published so far
NoInitialise ==
    [pc |-> "idle", bravo_connected |-> FALSE,
     poller |-> "idle", connect_error |-> FALSE, published |-> 0,
     future_id |-> [state |-> "none", result |-> 0],
     future_serial |-> [state |-> "none", result |-> NoSerial],
     received_id |-> 0, received_serial |-> NoSerial]

\* TrackMetadata.Keys, in the order of TrackMetadata.DEFAULTS
TrackKeys == <<"title", "album", "artist", "genre", "duration", "progress",
               "cover_art_url", "source", "url">>
\* TrackMetadata.Sources
NOT_STREAMING == 0
SPOTIFY == 4
\* TrackMetadata.DEFAULTS; a text is a number above 0 and None is no text
TrackDefaults ==
    [key \in Range(TrackKeys) |-> IF key = "source" THEN NOT_STREAMING
                                  ELSE IF key \in {"duration", "progress"} THEN 0
                                  ELSE None]
\* ZoneTransport.States and ZoneTransport.Repeat
STOP == 0
PLAY == 1
PAUSE == 2
REPEAT_OFF == 0
REPEAT_ALL == 2
\* ZoneTransport.DEFAULTS
TransportDefaults ==
    [state |-> STOP, repeat |-> REPEAT_OFF, shuffle |-> FALSE,
     next_flag |-> FALSE, prev_flag |-> FALSE]
\* ZoneGroup.__init__: the source of the group, None outside a group
GroupDefaults == [source |-> None]

\* ZoneSettings.StereoMono
Stereo == 0
Mono == 1
\* VolumeSettings.DEFAULTS
VolumeSettingsDefaults == [default_on |-> 0, max_left |-> 75, max_right |-> 75]
InitZone ==
    [id |-> 1, _volume |-> 0, _mute |-> FALSE, _disabled |-> FALSE,
     track |-> TrackDefaults, transport |-> TransportDefaults,
     group |-> GroupDefaults,
     _mono |-> Stereo, volume_settings |-> VolumeSettingsDefaults,
     _name |-> DefaultZoneName, _analog_input_name |-> DefaultAnalogInputName,
     _poller_request_name |-> TRUE,
     _serial |-> NoSerial, initialised |-> FALSE,
     initialise |-> NoInitialise, reported |-> <<>>]

\* Vssl.__init__
NoVersion == "None"
\* no add_zone call has been made
NoAdd == [zone_index |-> 0, host |-> 0, error |-> "none", before |-> <<>>]
\* Vssl.initialise has not been called
NoVsslInitialise ==
    [pc |-> "idle", future_model_zone_qty |-> "none", error |-> "none",
     disconnected_all |-> FALSE]
\* zones: the dict of the zones, in the order of insertion
InitVssl ==
    [_sw_version |-> NoVersion, _name |-> NoName,
     _optical_input_name |-> DefaultOpticalInputName,
     _serial |-> NoSerial,
     zones |-> <<>>, _model_zone_qty |-> 0,
     initialise |-> NoVsslInitialise, last_add |-> NoAdd]

PropIdle ==
    /\ zone = InitZone
    /\ vssl = InitVssl
    /\ prop_log = [owner |-> "none", name |-> "none", value |-> 0,
                   zone |-> InitZone, vssl |-> InitVssl, events |-> <<>>]

\* the receive loop before its first read, nothing sent by the device
InitRx == [pc |-> "first", data |-> <<>>, length |-> 0]

FrameIdle ==
    /\ proto = "alpha"
    /\ frames = <<>>
    /\ wire = <<>>
    /\ buffer = <<>>
    /\ rx = InitRx
    /\ dispatched = <<>>
    /\ eof = FALSE
    /\ lost = [n |-> 0, partial |-> FALSE]

ConnInit ==
    /\ ConnIdle
    /\ BusIdle
    /\ PropIdle
    /\ FrameIdle

\* a caller awaits connect(): lines 88-97, up to the await of open_connection
UserConnect ==
    /\ calls < MaxCalls
    /\ calls' = calls + 1
    /\ clean' = FALSE
    /\ terminal' = FALSE
    /\ IF api.connected
       THEN api' = api
       ELSE api' = [api EXCEPT !.connecting = TRUE,
                               !.tasks = Append(@, NewTask("connect", "opening"))]
    /\ UNCHANGED <<busVars, propVars, frameVars>>

\* the caller's open_connection completes or fails: lines 99-135
ConnectReturn(i) ==
    /\ At(i, "connect", "opening") /\ Polled(i)
    /\ \/ /\ api.nsock < MaxSockets
          /\ api' = EndTask(connect_success(api), i, "ok")
       \/ \E f \in OpenFailures :
             api' = EndTask(connect_failure(api), i,
                            IF f = "oserror" THEN "OSError" ELSE "ZoneConnectionError")
    /\ UNCHANGED <<calls, clean, terminal, busVars, propVars, frameVars>>

\* a caller awaits disconnect(): lines 142-157, or all of it without a writer
UserDisconnect ==
    /\ calls < MaxCalls
    /\ calls' = calls + 1
    /\ clean' = (\A j \in Tasks : ~At(j, "connect", "opening"))
    /\ IF api.writer # None
       THEN /\ api' = [disconnect_begin(api) EXCEPT
                          !.tasks = Append(@, NewTask("disconnect", "closing"))]
            /\ terminal' = terminal
       ELSE /\ api' = disconnect_begin(api)
            /\ terminal' = clean'
    /\ UNCHANGED <<busVars, propVars, frameVars>>

\* the caller's wait_closed() completes, times out or fails: lines 159-179
DisconnectReturn(i) ==
    /\ At(i, "disconnect", "closing") /\ Polled(i)
    /\ api' = EndTask(disconnect_end(api), i, "ok")
    /\ terminal' = clean
    /\ UNCHANGED <<calls, clean, busVars, propVars, frameVars>>

\* CancelledError delivered to a task at an await where it ends the task:
\* the except clauses of the three loops, and the backoff sleep
DeliverCancel(i) ==
    /\ Cancelled(i) /\ Scheduled(i)
    /\ api.tasks[i].kind \in LoopKinds \cup {"kc"}
    /\ api.tasks[i].pc \in {"start", "read", "get", "drain", "sleep", "backoff"}
    /\ api' = EndTask(api, i, "ok")
    /\ UNCHANGED <<calls, clean, terminal, busVars, propVars, frameVars>>

\* _keep_connected_loop: the test of the while loop and the call of connect()
keep_connected_iterate(S, i) ==
    IF S.connected
    THEN EndTask(S, i, "ok")
    ELSE SetTask([S EXCEPT !.connecting = TRUE], i, "opening")

Max2(a, b) == IF a >= b THEN a ELSE b
Min2(a, b) == IF a <= b THEN a ELSE b

BACKOFF_MIN == 15
BACKOFF_MAX == 300

\* the delay computed after the n-th failed attempt
backoff_unbounded(n) == Max2(BACKOFF_MIN, BACKOFF_MIN * n)
backoff(n) == Min2(Max2(BACKOFF_MIN, BACKOFF_MIN * n), BACKOFF_MAX)

\* the except ZoneConnectionError clause, up to the sleep
keep_connected_backoff(S, i) ==
    LET attempts == S.reconnection_attempts + 1
    IN SetTask([S EXCEPT !.reconnection_attempts = attempts,
                         !.backoff = backoff(attempts)], i, "backoff")

KeepConnectedStart(i) ==
    /\ At(i, "kc", "start") /\ Scheduled(i) /\ ~Cancelled(i)
    /\ api' = keep_connected_iterate(api, i)
    /\ UNCHANGED <<calls, clean, terminal, busVars, propVars, frameVars>>

\* the loop's open_connection completes, fails, or the task was cancelled
\* while it awaited: connect() turns the CancelledError into a
\* ZoneConnectionError, which the loop handles like any failed attempt
KeepConnectedOpened(i) ==
    /\ At(i, "kc", "opening")
    /\ Scheduled(i) \/ Polled(i)
    /\ IF Cancelled(i)
       THEN /\ api.reconnection_attempts < MaxAttempts
            /\ api' = keep_connected_backoff(connect_failure(api), i)
       ELSE \/ /\ api.nsock < MaxSockets
               /\ api' = EndTask(_cancel_keep_connected(connect_success(api)), i, "ok")
            \/ /\ api.reconnection_attempts < MaxAttempts
               /\ api' = keep_connected_backoff(connect_failure(api), i)
            \/ api' = EndTask(connect_failure(api), i, "OSError")
    /\ UNCHANGED <<calls, clean, terminal, busVars, propVars, frameVars>>

KeepConnectedWake(i) ==
    /\ At(i, "kc", "backoff") /\ Polled(i)
    /\ api' = keep_connected_iterate(api, i)
    /\ UNCHANGED <<calls, clean, terminal, busVars, propVars, frameVars>>

\* _receive_first_byte
ReceiveStart(i) ==
    /\ At(i, "recv", "start") /\ Scheduled(i) /\ ~Cancelled(i)
    /\ api' = IF api.connected THEN SetTask(api, i, "read") ELSE EndTask(api, i, "ok")
    /\ UNCHANGED <<calls, clean, terminal, busVars, propVars, frameVars>>

ReceiveByte(i) ==
    /\ At(i, "recv", "read") /\ Polled(i)
    /\ LET S == [api EXCEPT !.keep_alive_received = TRUE]
       IN api' = IF S.connected THEN S ELSE EndTask(S, i, "ok")
    /\ UNCHANGED <<calls, clean, terminal, busVars, propVars, frameVars>>

ReceiveError(i) ==
    /\ At(i, "recv", "read") /\ Polled(i)
    /\ api' = Finish(reconnect(api, i, "done"), i)
    /\ UNCHANGED <<calls, clean, terminal, busVars, propVars, frameVars>>

\* _send_bytes
SendStart(i) ==
    /\ At(i, "send", "start") /\ Scheduled(i) /\ ~Cancelled(i)
    /\ api' = IF api.connected THEN SetTask(api, i, "get") ELSE EndTask(api, i, "ok")
    /\ UNCHANGED <<calls, clean, terminal, busVars, propVars, frameVars>>

SendWrite(i) ==
    /\ At(i, "send", "get") /\ Polled(i)
    /\ api.writer_queue # <<>>
    /\ LET data == Head(api.writer_queue)
           S == [api EXCEPT !.writer_queue = Tail(@)]
       IN api' = IF S.writer = None
                 THEN EndTask(S, i, "AttributeError")
                 ELSE SetTask([S EXCEPT !.written =
                                  IF data = KEEPALIVE THEN @ ELSE Append(@, data)],
                              i, "drain")
    /\ UNCHANGED <<calls, clean, terminal, busVars, propVars, frameVars>>

SendDrained(i) ==
    /\ At(i, "send", "drain") /\ Polled(i)
    /\ api' = SetTask(api, i, "sleep")
    /\ UNCHANGED <<calls, clean, terminal, busVars, propVars, frameVars>>

SendError(i) ==
    /\ At(i, "send", "drain") /\ Polled(i)
    /\ api' = Finish(reconnect(api, i, "done"), i)
    /\ UNCHANGED <<calls, clean, terminal, busVars, propVars, frameVars>>

SendWake(i) ==
    /\ At(i, "send", "sleep") /\ Polled(i)
    /\ api' = IF api.connected THEN SetTask(api, i, "get") ELSE EndTask(api, i, "ok")
    /\ UNCHANGED <<calls, clean, terminal, busVars, propVars, frameVars>>

\* _send_keepalive_base: one turn of the while loop, up to the sleep
send_keepalive_iterate(S, i) ==
    IF S.connected
    THEN SetTask(send([S EXCEPT !.keep_alive_received = FALSE], KEEPALIVE), i, "sleep")
    ELSE EndTask(S, i, "ok")

\* the keepalive timer is let fire only while the outbound queue has room
QueueRoom(S) == Len(S.writer_queue) <= MaxQueue

KeepaliveStart(i) ==
    /\ At(i, "ka", "start") /\ Scheduled(i) /\ ~Cancelled(i)
    /\ api' = send_keepalive_iterate(api, i)
    /\ UNCHANGED <<calls, clean, terminal, busVars, propVars, frameVars>>

KeepaliveWake(i) ==
    /\ At(i, "ka", "sleep") /\ Polled(i)
    /\ IF api.keep_alive_received
       THEN api' = send_keepalive_iterate(api, i)
       ELSE LET S == reconnect(api, i, "sleep")
            IN api' = IF S.tasks[i].pc = "closing" THEN S
                      ELSE send_keepalive_iterate(S, i)
    /\ QueueRoom(api')
    /\ UNCHANGED <<calls, clean, terminal, busVars, propVars, frameVars>>

\* a loop task inside reconnect() resumes from the await of the close (the
\* CancelledError of its own cancellation is caught by disconnect()), ends
\* disconnect() and starts the backoff loop
ReconnectResume(i) ==
    /\ api.tasks[i].kind \in LoopKinds /\ api.tasks[i].pc = "closing"
    /\ Scheduled(i) \/ Polled(i)
    /\ LET S == _keep_connected(disconnect_end(SetTask(api, i, "closing")))
       IN api' = IF api.tasks[i].kind = "ka"
                 THEN send_keepalive_iterate(S, i)
                 ELSE EndTask(S, i, "ok")
    /\ UNCHANGED <<calls, clean, terminal, busVars, propVars, frameVars>>

ConnNext ==
    \/ UserConnect
    \/ UserDisconnect
    \/ \E i \in Tasks : ConnectReturn(i)
    \/ \E i \in Tasks : DisconnectReturn(i)
    \/ \E i \in Tasks : DeliverCancel(i)
    \/ \E i \in Tasks : KeepConnectedStart(i)
    \/ \E i \in Tasks : KeepConnectedOpened(i)
    \/ \E i \in Tasks : KeepConnectedWake(i)
    \/ \E i \in Tasks : ReceiveStart(i)
    \/ \E i \in Tasks : ReceiveByte(i)
    \/ \E i \in Tasks : ReceiveError(i)
    \/ \E i \in Tasks : SendStart(i)
    \/ \E i \in Tasks : SendWrite(i)
    \/ \E i \in Tasks : SendDrained(i)
    \/ \E i \in Tasks : SendError(i)
    \/ \E i \in Tasks : SendWake(i)
    \/ \E i \in Tasks : KeepaliveStart(i)
    \/ \E i \in Tasks : KeepaliveWake(i)
    \/ \E i \in Tasks : ReconnectResume(i)

ConnSpec == ConnInit /\ [][ConnNext]_vars

\* a producer (a request builder, the poller) calls send() with the next
\* message; the messages are numbered in the order of the calls
UserSend ==
    /\ LET m == Len(api.accepted) + Cardinality(api.refused) + 1
           S == send(api, m)
       IN /\ m <= MaxSend
          /\ api' = IF api.connected
                    THEN [S EXCEPT !.accepted = Append(@, m)]
                    ELSE [S EXCEPT !.refused = @ \cup {m}]
    /\ UNCHANGED <<calls, clean, terminal, busVars, propVars, frameVars>>

\* one client session: connect() once, then at any moment disconnect() once
SessionConnect == calls = 0 /\ UserConnect
SessionDisconnect == calls = 1 /\ UserDisconnect

SessionNext ==
    \/ SessionConnect
    \/ SessionDisconnect
    \/ \E i \in Tasks : ConnectReturn(i)
    \/ \E i \in Tasks : DisconnectReturn(i)
    \/ \E i \in Tasks : DeliverCancel(i)
    \/ \E i \in Tasks : KeepConnectedStart(i)
    \/ \E i \in Tasks : KeepConnectedOpened(i)
    \/ \E i \in Tasks : KeepConnectedWake(i)
    \/ \E i \in Tasks : ReceiveStart(i)
    \/ \E i \in Tasks : ReceiveByte(i)
    \/ \E i \in Tasks : ReceiveError(i)
    \/ \E i \in Tasks : SendStart(i)
    \/ \E i \in Tasks : SendWrite(i)
    \/ \E i \in Tasks : SendDrained(i)
    \/ \E i \in Tasks : SendError(i)
    \/ \E i \in Tasks : SendWake(i)
    \/ \E i \in Tasks : KeepaliveStart(i)
    \/ \E i \in Tasks : KeepaliveWake(i)
    \/ \E i \in Tasks : ReconnectResume(i)

SessionSpec == ConnInit /\ [][SessionNext]_vars

\* a client session during which producers call send()
ProducerNext ==
    \/ UserSend
    \/ SessionNext

ProducerSpec == ConnInit /\ [][ProducerNext]_vars

\* ---------------------------------------------------------------------------
\* Event bus (event_bus.py): operations
\* ---------------------------------------------------------------------------
Entities == {"z1", "z2"}
\* the entities of the events published with publish() and publish_async()
PublishEntities == Entities \cup {ENone}
PublishAsyncEntities == {"z1"}

\* EventBus.subscribe (the callback is a coroutine function)
subscribe(subs, event_type, callback, entity, once) ==
    [subs EXCEPT ![event_type] =
        Append(@, [cb |-> callback, entity |-> entity, once |-> once])]

\* EventBus.unsubscribe: a new list without the registrations of the callback
unsubscribe(subs, event_type, callback) ==
    [subs EXCEPT ![event_type] = SelectSeq(@, LAMBDA r : r.cb # callback)]

\* the test of process_events that selects the subscribers of an event
Matches(entity, subscribed_entity) ==
    \/ entity = ENone
    \/ subscribed_entity = entity
    \/ subscribed_entity = WILDCARD

\* await callback(data, entity, event_type): a plain callback records the
\* event, a faulty one raises, future_callback sets the result of its future
\* (Future.set_result raises InvalidStateError unless the future is pending)
Invoke(r, ev, st) ==
    LET st1 == [st EXCEPT !.invoked = Append(@, [cb |-> r.cb, entity |-> r.entity])]
    IN IF r.cb \in PlainCallbacks
       THEN [st1 EXCEPT !.delivered[r.cb] =
                Append(@, [data |-> ev.data, entity |-> ev.entity,
                           subscribed |-> r.entity])]
       ELSE IF r.cb \in FutureIds
       THEN IF st1.futs[r.cb].state = "pending"
            THEN [st1 EXCEPT !.futs[r.cb].state = "done",
                             !.futs[r.cb].result = ev.data]
            ELSE [st1 EXCEPT !.raised = TRUE]
       ELSE [st1 EXCEPT !.raised = TRUE]

\* one of the two for loops of process_events, from position k of the list
\* it iterates; an exception leaves the loop and the rest of the try block
RECURSIVE DeliverList(_, _, _, _, _)
DeliverList(list, k, event_type, ev, st) ==
    IF st.raised \/ k > Len(list)
    THEN st
    ELSE IF Matches(ev.entity, list[k].entity)
         THEN LET st1 == Invoke(list[k], ev, st)
                  st2 == IF ~st1.raised /\ list[k].once
                         THEN [st1 EXCEPT !.subs = unsubscribe(@, event_type, list[k].cb)]
                         ELSE st1
              IN DeliverList(list, k + 1, event_type, ev, st2)
         ELSE DeliverList(list, k + 1, event_type, ev, st)

\* the body of the while loop of process_events for the event ev
process_event(ev, subs, futs, delivered) ==
    LET st0 == [subs |-> subs, futs |-> futs, delivered |-> delivered,
                invoked |-> <<>>, raised |-> FALSE]
        st1 == DeliverList(subs[ev.type], 1, ev.type, ev, st0)
    IN DeliverList(st1.subs[WILDCARD], 1, WILDCARD, ev, st1)

\* the callbacks registered for the event when it is taken off the queue
Registered(ev) ==
    {r.cb : r \in {x \in Range(subscribers[ev.type]) \cup Range(subscribers[WILDCARD]) :
                      Matches(ev.entity, x.entity)}}

\* the subscriptions the callers make: <<event type, callback, entity, once>>
Registrations ==
    { <<"a", "p", "z1", FALSE>>,
      <<"a", "q", WILDCARD, FALSE>>, <<WILDCARD, "q", WILDCARD, FALSE>>,
      <<"a", "bad", "z1", FALSE>> }

NSubscriptions == Len(subscribers["a"]) + Len(subscribers[WILDCARD])

\* process_events, up to its first await of event_queue.get()
BusStart ==
    /\ bus_pc = "start"
    /\ running' = TRUE
    /\ bus_pc' = "get"
    /\ UNCHANGED <<subscribers, event_queue, publish_tasks, futures, bus_log, connVars, propVars, frameVars>>

\* process_events: one event is taken off the queue and delivered, then the
\* while condition is tested
ProcessEvent ==
    /\ bus_pc = "get"
    /\ event_queue # <<>>
    /\ LET ev == Head(event_queue)
           st == process_event(ev, subscribers, futures, bus_log.delivered)
       IN /\ subscribers' = st.subs
          /\ futures' = st.futs
          /\ bus_log' = [bus_log EXCEPT
                !.delivered = st.delivered,
                !.after_stop = @ \/ (bus_log.stopped /\ st.invoked # <<>>)]
    /\ event_queue' = Tail(event_queue)
    /\ bus_pc' = IF running THEN "get" ELSE "done"
    /\ UNCHANGED <<publish_tasks, running, connVars, propVars, frameVars>>

\* EventBus.stop
Stop ==
    /\ ~bus_log.stopped
    /\ running' = FALSE
    /\ bus_log' = [bus_log EXCEPT !.stopped = TRUE]
    /\ UNCHANGED <<subscribers, event_queue, publish_tasks, bus_pc, futures, connVars, propVars, frameVars>>

IsSubscribed(callback) ==
    \E t \in EventTypes : \E k \in DOMAIN subscribers[t] : subscribers[t][k].cb = callback

\* a caller subscribes a callback that is not subscribed at present
Subscribe(event_type, callback, entity, once) ==
    /\ NSubscriptions < MaxSubscriptions
    /\ ~IsSubscribed(callback)
    /\ subscribers' = subscribe(subscribers, event_type, callback, entity, once)
    /\ UNCHANGED <<event_queue, publish_tasks, running, bus_pc, futures, bus_log, connVars, propVars, frameVars>>

Unsubscribe(event_type, callback) ==
    /\ \E k \in DOMAIN subscribers[event_type] : subscribers[event_type][k].cb = callback
    /\ subscribers' = unsubscribe(subscribers, event_type, callback)
    /\ UNCHANGED <<event_queue, publish_tasks, running, bus_pc, futures, bus_log, connVars, propVars, frameVars>>

\* EventBus.future: a new Future and a one-shot subscription of its callback
Future(f, entity) ==
    /\ futures[f].state = "none"
    /\ futures' = [futures EXCEPT ![f] = [state |-> "pending", result |-> 0,
                                          created |-> Len(bus_log.published)]]
    /\ subscribers' = subscribe(subscribers, "a", f, entity, TRUE)
    /\ UNCHANGED <<event_queue, publish_tasks, running, bus_pc, bus_log, connVars, propVars, frameVars>>

NewEvent(entity) == [type |-> "a", entity |-> entity, data |-> Len(bus_log.published) + 1]

\* EventBus.publish: a task that will put the event on the queue
Publish(entity) ==
    /\ Len(bus_log.published) < MaxPublish
    /\ publish_tasks' = Append(publish_tasks, NewEvent(entity))
    /\ bus_log' = [bus_log EXCEPT !.published = Append(@, entity)]
    /\ UNCHANGED <<subscribers, event_queue, running, bus_pc, futures, connVars, propVars, frameVars>>

\* EventBus.publish_async: the event is put on the (unbounded) queue at once
PublishAsync(entity) ==
    /\ Len(bus_log.published) < MaxPublish
    /\ event_queue' = Append(event_queue, NewEvent(entity))
    /\ bus_log' = [bus_log EXCEPT !.published = Append(@, entity)]
    /\ UNCHANGED <<subscribers, publish_tasks, running, bus_pc, futures, connVars, propVars, frameVars>>

\* the task created by publish() runs: publish_async
RunPublishTask ==
    /\ publish_tasks # <<>>
    /\ event_queue' = Append(event_queue, Head(publish_tasks))
    /\ publish_tasks' = Tail(publish_tasks)
    /\ UNCHANGED <<subscribers, running, bus_pc, futures, bus_log, connVars, propVars, frameVars>>

BusInit ==
    /\ BusIdle
    /\ ConnIdle
    /\ PropIdle
    /\ FrameIdle

BusNext ==
    \/ BusStart
    \/ ProcessEvent
    \/ Stop
    \/ \E r \in Registrations : Subscribe(r[1], r[2], r[3], r[4])
    \/ \E t \in EventTypes, c \in PlainCallbacks \cup RaisingCallbacks : Unsubscribe(t, c)
    \/ \E f \in FutureIds, e \in {ENone, "z1"} : Future(f, e)
    \/ \E e \in PublishEntities : Publish(e)
    \/ \E e \in PublishAsyncEntities : PublishAsync(e)
    \/ RunPublishTask

BusSpec == BusInit /\ [][BusNext]_vars

\* ---------------------------------------------------------------------------
\* Properties of the connection manager
\* ---------------------------------------------------------------------------
\* a task whose coroutine has not ended and that is not being cancelled
Running(i) == api.tasks[i].pc # "done" /\ ~api.tasks[i].cancel
RunningOf(k) == {i \in Tasks : api.tasks[i].kind = k /\ Running(i)}

\* C1: once an explicit disconnect() has returned (and no caller has invoked
\* connect() since, nor had one in flight), the connection is not connected
\* and neither its three loops nor a backoff-retry loop are running.
C1_DisconnectIsTerminal ==
    terminal =>
        /\ ~api.connected
        /\ \A k \in LoopKinds \cup {"kc"} : RunningOf(k) = {}

\* C2: no failure of a connect() attempt is raised out of the backoff-retry
\* loop: the loop never ends with an exception.
C2_NoFailureRaisedOutOfLoop ==
    \A i \in Tasks :
        api.tasks[i].kind = "kc" => api.tasks[i].result \notin {"OSError"}

\* C3: at most one open socket, one backoff-retry loop and one receive, one
\* send and one keepalive loop in every reachable state.
C3_AtMostOneSocketAndLoops ==
    /\ Cardinality(api.open) <= 1
    /\ \A k \in LoopKinds \cup {"kc"} : Cardinality(RunningOf(k)) <= 1

\* ---------------------------------------------------------------------------
MaxBackoffAttempts == 25

Sleeping == {i \in RunningOf("kc") : api.tasks[i].pc = "backoff"}

\* C13: while the keep-connected loop sleeps after its n-th failed attempt
\* the delay is min(max(15, 15*n), 300); delays never decrease from one
\* attempt to the next and stay between the floor and the ceiling; a
\* keep-connected loop starts with the attempt counter at zero, and the
\* counter is zero right after every successful connect()
C13_Backoff ==
    /\ [](/\ \A i \in Sleeping :
               /\ api.reconnection_attempts >= 1
               /\ api.backoff =
                     Min2(Max2(15, 15 * api.reconnection_attempts), 300)
          /\ \A i \in RunningOf("kc") :
               api.tasks[i].pc = "start" => api.reconnection_attempts = 0
          /\ \A n \in 1..MaxBackoffAttempts :
               /\ backoff(n) <= backoff(n + 1)
               /\ backoff(n) >= 15
               /\ backoff(n) <= 300)
    /\ [][(~api.connected /\ api'.connected) => api'.reconnection_attempts = 0]_vars

C13_Witness ==
    /\ Sleeping # {}
    /\ api.reconnection_attempts = 2
    /\ api.backoff = 30
    /\ api.nsock >= 1

\* C14: every keepalive interval of a connected connection starts with the
\* liveness flag cleared and a keepalive request queued; when the interval
\* ends and no byte was received during it the connection is taken down (not
\* connected any more, every loop cancelled, the socket closed) unless a
\* reconnect is already under way, and the backoff loop runs once the close
\* has completed; when a byte was received the connection, its socket and its
\* loops are left as they are
C14_Keepalive ==
    [][\A i \in Tasks :
          /\ (KeepaliveStart(i) \/ KeepaliveWake(i)) /\ api'.connected =>
                /\ ~api'.keep_alive_received
                /\ api'.writer_queue = Append(api.writer_queue, KEEPALIVE)
          /\ KeepaliveWake(i) /\ ~api.keep_alive_received /\ ~_reconnecting(api) =>
                /\ ~api'.connected
                /\ \A j \in RunningOf("recv") \cup RunningOf("send") :
                      api'.tasks[j].cancel \/ api'.tasks[j].pc = "done"
                /\ api'.open = {}
          /\ KeepaliveWake(i) /\ api.keep_alive_received =>
                /\ api'.connected = api.connected
                /\ api'.open = api.open
                /\ \A j \in Tasks \ {i} : api'.tasks[j] = api.tasks[j]
          /\ ReconnectResume(i) /\ api.tasks[i].kind = "ka" =>
                _is_keep_connected_running(api')]_vars

\* C15: a connect() that fails ends with ZoneConnectionError whatever the
\* cause of the failure, and the step in which it fails leaves the
\* connection not connected, not connecting and without a new loop
C15_ConnectFailure ==
    /\ [](\A i \in Tasks :
             At(i, "connect", "done") =>
                api.tasks[i].result \in {"ok", "ZoneConnectionError"})
    /\ [][\A i \in Tasks :
             ConnectReturn(i) /\ api'.tasks[i].result # "ok" =>
                /\ ~api'.connected
                /\ ~api'.connecting
                /\ Len(api'.tasks) = Len(api.tasks)]_vars

\* C16: a message given to send() while the connection is not connected is
\* not queued and is never written, also not after a later reconnect, and
\* that send() leaves the outbound queue as it was
C16_SendWhileDisconnected ==
    /\ [](\A m \in api.refused :
             /\ m \notin Range(api.writer_queue)
             /\ m \notin Range(api.written))
    /\ [][UserSend /\ ~api.connected => api'.writer_queue = api.writer_queue]_vars

\* a message was dropped while the connection was down and a later message
\* was written on the next connection
C16_Witness ==
    /\ api.nsock = 2
    /\ \E m \in api.refused : \E k \in DOMAIN api.written : api.written[k] > m

\* C17: the messages written to the socket are messages accepted by send(),
\* in the order in which they were accepted and each at most once, and at
\* most one write of the send loop is in progress at any time
C17_WritesInOrder ==
    /\ \A k \in DOMAIN api.written : api.written[k] \in Range(api.accepted)
    /\ \A j, k \in DOMAIN api.written : j < k => api.written[j] < api.written[k]
    /\ Cardinality({i \in Tasks : At(i, "send", "drain")}) <= 1

\* two messages have been written, the second write is in progress
C17_Witness ==
    /\ Len(api.written) = 2
    /\ \E i \in Tasks : At(i, "send", "drain")

\* Properties of the event bus
\* ---------------------------------------------------------------------------
\* a step of process_events that takes an event off the queue
Dequeues == event_queue # <<>> /\ event_queue' = Tail(event_queue)

\* C5: a callback subscribed for an entity other than the wildcard is invoked
\* only for events published with that same entity; in particular never for
\* an event published with no entity.
C5_EventScoping ==
    \A c \in PlainCallbacks :
        \A k \in DOMAIN bus_log.delivered[c] :
            LET d == bus_log.delivered[c][k]
            IN d.subscribed # WILDCARD => d.entity = d.subscribed

\* C6: a resolved future holds the data of an event published after the
\* future was created, and no registration of its callback remains.
C6_OneShotFuture ==
    \A f \in FutureIds :
        futures[f].state = "done" =>
            /\ futures[f].result > futures[f].created
            /\ ~IsSubscribed(f)

\* C7: every subscriber receives events in the order of their publication,
\* none twice: the publication numbers in its log are strictly increasing.
C7_FifoDelivery ==
    \A c \in PlainCallbacks :
        \A j, k \in DOMAIN bus_log.delivered[c] :
            j < k => bus_log.delivered[c][j].data < bus_log.delivered[c][k].data

\* C8: when an event is delivered, every well-behaved callback registered for
\* it is invoked, whatever the other callbacks registered for it do.
C8_FaultIsolation ==
    [][Dequeues =>
          \A c \in PlainCallbacks \cap Registered(Head(event_queue)) :
              Len(bus_log'.delivered[c]) > Len(bus_log.delivered[c])]_vars

\* C9: once stop() has been called no callback is invoked any more, neither
\* for an event published before the call nor for one published after it.
C9_NoDeliveryAfterStop == ~bus_log.after_stop

\* ---------------------------------------------------------------------------
\* Property updates (zone.py, data_structure.py, core.py)
\* ---------------------------------------------------------------------------

\* utils.clamp_volume
clamp_volume_floor(vol) == Max2(0, vol)
clamp_volume(vol) == Max2(0, Min2(vol, 100))

\* the property getters
Zone_volume(z) == z._volume
Zone_mute(z) == IF z._volume = 0 THEN TRUE ELSE z._mute
ZoneSettings_disabled(z) == z._disabled
Vssl_sw_version(v) == v._sw_version

\* Vssl.ENTITY_ID
ENTITY_ID == 0

\* getattr(Events, property_name.upper() + "_CHANGE")
ChangeEvent(property_name) ==
    CASE property_name = "volume" -> "VOLUME_CHANGE"
      [] property_name = "mute" -> "MUTE_CHANGE"
      [] property_name = "disabled" -> "DISABLED_CHANGE"
      [] property_name = "sw_version" -> "SW_VERSION_CHANGE"

\* a direct setter that stores and reports a change on every call
Zone__set_volume_always(z, vol) ==
    LET v == clamp_volume(vol)
    IN [obj |-> [z EXCEPT !._volume = v], log |-> TRUE]
\* Zone._set_volume: the direct setter of volume; log is its return value
Zone__set_volume(z, vol) ==
    LET v == clamp_volume(vol)
    IN IF Zone_volume(z) # v
       THEN [obj |-> [z EXCEPT !._volume = v], log |-> TRUE]
       ELSE [obj |-> z, log |-> FALSE]

\* Zone._set_property: volume has a direct setter, mute has none and is
\* compared with what its getter returns
Zone__set_property(z, property_name, new_value) ==
    LET r == IF property_name = "volume"
             THEN Zone__set_volume(z, new_value)
             ELSE IF Zone_mute(z) # new_value
                  THEN [obj |-> [z EXCEPT !._mute = new_value], log |-> TRUE]
                  ELSE [obj |-> z, log |-> FALSE]
        updated == IF property_name = "volume" THEN Zone_volume(r.obj) ELSE Zone_mute(r.obj)
    IN [obj |-> r.obj,
        events |-> IF r.log
                   THEN <<[type |-> ChangeEvent(property_name), entity |-> z.id,
                           data |-> updated]>>
                   ELSE <<>>]

\* ZoneDataClass._set_property for the disabled flag of ZoneSettings (no direct setter)
ZoneDataClass__set_property(z, property_name, new_value) ==
    LET log == ZoneSettings_disabled(z) # new_value
        obj == IF log THEN [z EXCEPT !._disabled = new_value] ELSE z
    IN [obj |-> obj,
        events |-> IF log
                   THEN <<[type |-> ChangeEvent(property_name), entity |-> z.id,
                           data |-> ZoneSettings_disabled(obj)]>>
                   ELSE <<>>]

\* Vssl._set_property for sw_version
Vssl__set_property(v, property_name, new_value) ==
    LET changed == Vssl_sw_version(v) # new_value
        obj == IF changed THEN [v EXCEPT !._sw_version = new_value] ELSE v
    IN [obj |-> obj,
        events |-> IF changed
                   THEN <<[type |-> ChangeEvent(property_name), entity |-> ENTITY_ID,
                           data |-> Vssl_sw_version(obj)]>>
                   ELSE <<>>]

\* the values the device reports
VolumeValues == {0, 40, 100, 150}
VersionValues == {"p15", "p16"}

\* a response handler calls zone._set_property
ZoneUpdate(property_name, new_value) ==
    /\ LET r == Zone__set_property(zone, property_name, new_value)
       IN /\ zone' = r.obj
          /\ prop_log' = [owner |-> "zone", name |-> property_name, value |-> new_value,
                          zone |-> zone, vssl |-> vssl, events |-> r.events]
    /\ UNCHANGED <<vssl, connVars, busVars, frameVars>>

\* a response handler calls zone.settings._set_property("disabled", ...)
SettingsUpdate(new_value) ==
    /\ LET r == ZoneDataClass__set_property(zone, "disabled", new_value)
       IN /\ zone' = r.obj
          /\ prop_log' = [owner |-> "settings", name |-> "disabled", value |-> new_value,
                          zone |-> zone, vssl |-> vssl, events |-> r.events]
    /\ UNCHANGED <<vssl, connVars, busVars, frameVars>>

\* a response handler calls vssl._set_property("sw_version", ...)
VsslUpdate(new_value) ==
    /\ LET r == Vssl__set_property(vssl, "sw_version", new_value)
       IN /\ vssl' = r.obj
          /\ prop_log' = [owner |-> "vssl", name |-> "sw_version", value |-> new_value,
                          zone |-> zone, vssl |-> vssl, events |-> r.events]
    /\ UNCHANGED <<zone, connVars, busVars, frameVars>>

PropInit ==
    /\ PropIdle
    /\ ConnIdle
    /\ BusIdle
    /\ FrameIdle

PropNext ==
    \/ \E v \in VolumeValues : ZoneUpdate("volume", v)
    \/ \E v \in BOOLEAN : ZoneUpdate("mute", v)
    \/ \E v \in BOOLEAN : SettingsUpdate(v)
    \/ \E v \in VersionValues : VsslUpdate(v)

PropSpec == PropInit /\ [][PropNext]_vars

\* what the property of the last update reads in the objects z and v
ReadProperty(z, v) ==
    CASE prop_log.name = "volume" -> Zone_volume(z)
      [] prop_log.name = "mute" -> Zone_mute(z)
      [] prop_log.name = "disabled" -> ZoneSettings_disabled(z)
      [] prop_log.name = "sw_version" -> Vssl_sw_version(v)

ValidValue == prop_log.name = "volume" => prop_log.value \in 0..100

\* C4: an update with the value the property already has publishes nothing
\* and changes nothing; an update with another valid value makes the property
\* read that value and publishes exactly one change event of the property,
\* carrying that value.
C4_DedupPublish ==
    prop_log.name # "none" =>
        LET current == ReadProperty(prop_log.zone, prop_log.vssl)
        IN /\ prop_log.value = current =>
                 /\ prop_log.events = <<>>
                 /\ zone = prop_log.zone
                 /\ vssl = prop_log.vssl
           /\ (prop_log.value # current /\ ValidValue) =>
                 /\ ReadProperty(zone, vssl) = prop_log.value
                 /\ Len(prop_log.events) = 1
                 /\ prop_log.events[1].type = ChangeEvent(prop_log.name)
                 /\ prop_log.events[1].data = prop_log.value

\* ---------------------------------------------------------------------------
\* Frame reader (api_base.py, api_alpha.py, api_bravo.py)
\* ---------------------------------------------------------------------------
FRIST_BYTE == 1
APIAlpha_HEADER_LENGTH == 3
APIBravo_HEADER_LENGTH == 10

HEADER_LENGTH(p) == IF p = "alpha" THEN APIAlpha_HEADER_LENGTH ELSE APIBravo_HEADER_LENGTH

Protocols == {"alpha", "bravo"}

\* int.from_bytes(b, "big") of two bytes
int_from_bytes_little(b) == b[1] + 256 * b[2]
int_from_bytes_big(b) == 256 * b[1] + b[2]

\* the length _read_byte_stream takes from the header it has read:
\* data[2] for protocol A, data[8:10] for protocol B (indices from 0)
frame_length(p, data) ==
    IF p = "alpha" THEN data[3] ELSE int_from_bytes_big(SubSeq(data, 9, 10))

\* the payloads of the frames of the device; one of protocol A has the
\* bytes of a header, one of protocol B is longer than 255 bytes
AlphaPayloads == { <<>>, <<8>>, <<16, 5, 1>> }
BravoPayloads == { <<>>, <<170, 170>>, [k \in 1..256 |-> k % 256] }

\* the valid frames: a header that ends with the length of the payload
ValidFrames(p) ==
    IF p = "alpha"
    THEN { <<16, 5, Len(pl)>> \o pl : pl \in AlphaPayloads }
    ELSE { <<170, 170, 2, 5, 0, 0, 0, 0, Len(pl) \div 256, Len(pl) % 256>> \o pl :
             pl \in BravoPayloads }

RECURSIVE Concat(_)
Concat(fs) == IF fs = <<>> THEN <<>> ELSE Head(fs) \o Concat(Tail(fs))

\* ---------------------------------------------------------------------------
\* Response handlers (api_alpha.py, api_bravo.py)
\* ---------------------------------------------------------------------------
\* bytes.decode("ascii") succeeds
IsAscii(bs) == \A i \in DOMAIN bs : bs[i] < 128

\* str.strip()
Whitespace == {9, 10, 11, 12, 13, 32}
RECURSIVE lstrip(_)
lstrip(bs) == IF bs # <<>> /\ Head(bs) \in Whitespace THEN lstrip(Tail(bs)) ELSE bs
RECURSIVE rstrip(_)
rstrip(bs) ==
    IF bs # <<>> /\ bs[Len(bs)] \in Whitespace THEN rstrip(SubSeq(bs, 1, Len(bs) - 1)) ELSE bs
strip(bs) == lstrip(rstrip(bs))

\* what a handler works on: the zone, the device, the events it publishes and
\* the exception it raises
HandlerState(z, v) == [zone |-> z, vssl |-> v, events |-> <<>>, raised |-> "none"]
Raise(st, e) == [st EXCEPT !.raised = e]

\* VsslDataClass._set_property of VsslSettings: name, optical_input_name
VsslSettings__set_property(st, field, event, new_value) ==
    IF st.vssl[field] # new_value
    THEN [st EXCEPT !.vssl[field] = new_value,
                    !.events = Append(@, [type |-> event, entity |-> ENTITY_ID,
                                          data |-> new_value])]
    ELSE st

\* _set_property of AnalogInput for its name
AnalogInput__set_property(st, new_value) ==
    IF st.zone._analog_input_name # new_value
    THEN [st EXCEPT !.zone._analog_input_name = new_value,
                    !.events = Append(@, [type |-> "analog_input.NAME_CHANGE",
                                          entity |-> st.zone.id, data |-> new_value])]
    ELSE st

\* ZoneDataClass._set_property of ZoneSettings for name, with the direct
\* setter ZoneSettings._set_name
ZoneSettings__set_name(st, new_value) ==
    IF new_value # st.zone._name
    THEN [st EXCEPT !.zone._name = new_value,
                    !.zone._poller_request_name = FALSE,
                    !.events = Append(@, [type |-> "settings.NAME_CHANGE",
                                          entity |-> st.zone.id, data |-> new_value])]
    ELSE st

\* APIAlpha.response_action_16: the name of an analog or optical input
APIAlpha_response_action_16(response, st) ==
    IF Len(response) < 4
    THEN Raise(st, "IndexError")
    ELSE LET input_id == response[4]
             name == SubSeq(response, 5, Len(response))
         IN IF ~IsAscii(name)
            THEN Raise(st, "UnicodeDecodeError")
            ELSE IF input_id = st.zone.id
                 THEN AnalogInput__set_property(st, strip(name))
                 ELSE IF input_id = 12
                      THEN VsslSettings__set_property(st, "_optical_input_name",
                               "OPTICAL_INPUT_NAME_CHANGE", strip(name))
                      ELSE st

\* APIAlpha.response_action_19: the name of the device; every exception is
\* caught and logged
APIAlpha_response_action_19(response, st) ==
    LET length == response[3] - 1
        name == SubSeq(response, 5, Min2(4 + length, Len(response)))
    IN IF ~IsAscii(name)
       THEN st
       ELSE VsslSettings__set_property(st, "_name", "NAME_CHANGE", strip(name))

\* APIAlpha._handle_response: the handler of the action byte, or the default
APIAlpha__handle_response(response, st) ==
    CASE response[2] = 22 -> APIAlpha_response_action_16(response, st)
      [] response[2] = 25 -> APIAlpha_response_action_19(response, st)
      [] OTHER -> st

\* APIBravo._extract_response_data: the except clause formats a name that is
\* not defined, which raises NameError
APIBravo__extract_response_data(response) ==
    LET length == int_from_bytes_big(SubSeq(response, 9, 10))
        data == SubSeq(response, 11, Min2(10 + length, Len(response)))
    IN IF IsAscii(data)
       THEN [raised |-> "none", data |-> data]
       ELSE [raised |-> "NameError", data |-> <<>>]

\* APIBravo.response_action_5A: the name of the zone
APIBravo_response_action_5A(response, st) ==
    LET r == APIBravo__extract_response_data(response)
    IN IF r.raised # "none"
       THEN Raise(st, r.raised)
       ELSE ZoneSettings__set_name(st, strip(r.data))

\* APIBravo.response_action_default: the data of the frame is extracted for
\* the log message
APIBravo_response_action_default(response, st) ==
    LET r == APIBravo__extract_response_data(response)
    IN IF r.raised # "none" THEN Raise(st, r.raised) ELSE st

\* APIBravo._handle_response
APIBravo__handle_response(response, st) ==
    CASE response[5] = 90 -> APIBravo_response_action_5A(response, st)
      [] OTHER -> APIBravo_response_action_default(response, st)

\* the method a frame is handed to: hasattr(self, "response_action_" + opcode)
response_action(p, length, response) ==
    IF p = "alpha"
    THEN CASE length = 1 -> "response_action_confimation"
           [] response[2] = 22 -> "response_action_16"
           [] response[2] = 25 -> "response_action_19"
           [] OTHER -> "response_action_default"
    ELSE CASE response[5] = 90 -> "response_action_5A"
           [] OTHER -> "response_action_default"

\* _read_byte_stream after the last read: protocol A hands a frame of length 1
\* to response_action_confimation, every other frame goes to _handle_response
handle_frame_by_opcode(p, length, response, st) ==
    IF p = "alpha"
    THEN APIAlpha__handle_response(response, st)
    ELSE APIBravo__handle_response(response, st)
handle_frame(p, length, response, st) ==
    IF p = "alpha"
    THEN IF length = 1 THEN st ELSE APIAlpha__handle_response(response, st)
    ELSE APIBravo__handle_response(response, st)

\* the sizes of the chunks in which the bytes arrive
ChunkSizes == {1, 2, 3, 8, 64, 300}

\* the transport feeds the next bytes of the stream to the StreamReader
FeedChunk(n) ==
    /\ wire # <<>>
    /\ ~eof
    /\ LET m == Min2(n, Len(wire))
       IN /\ buffer' = buffer \o SubSeq(wire, 1, m)
          /\ wire' = SubSeq(wire, m + 1, Len(wire))
    /\ UNCHANGED <<proto, frames, rx, dispatched, eof, lost, connVars, busVars, propVars>>

\* _receive_first_byte: readexactly(FRIST_BYTE) returns
ReadFirstByte ==
    /\ rx.pc = "first"
    /\ Len(buffer) >= FRIST_BYTE
    /\ rx' = [pc |-> "header", data |-> SubSeq(buffer, 1, FRIST_BYTE), length |-> 0]
    /\ buffer' = SubSeq(buffer, FRIST_BYTE + 1, Len(buffer))
    /\ UNCHANGED <<proto, frames, wire, dispatched, eof, lost, connVars, busVars, propVars>>

\* _read_byte_stream: readexactly(HEADER_LENGTH - FRIST_BYTE) returns
ReadHeader ==
    /\ rx.pc = "header"
    /\ LET n == HEADER_LENGTH(proto) - FRIST_BYTE
       IN /\ Len(buffer) >= n
          /\ LET data == rx.data \o SubSeq(buffer, 1, n)
             IN rx' = [pc |-> "payload", data |-> data, length |-> frame_length(proto, data)]
          /\ buffer' = SubSeq(buffer, n + 1, Len(buffer))
    /\ UNCHANGED <<proto, frames, wire, dispatched, eof, lost, connVars, busVars, propVars>>

\* _read_byte_stream: readexactly(length) returns and the frame is handed to
\* response_action_confimation (protocol A, length 1) or to _handle_response,
\* which calls the method of the opcode or response_action_default; an exception of the handler is not caught by _receive_first_byte and ends
\* the receive task
ReadPayload ==
    /\ rx.pc = "payload"
    /\ Len(buffer) >= rx.length
    /\ LET data == rx.data \o SubSeq(buffer, 1, rx.length)
           handler == response_action(proto, rx.length, data)
           st == handle_frame(proto, rx.length, data, HandlerState(zone, vssl))
       IN /\ dispatched' = Append(dispatched, [handler |-> handler, data |-> data])
          /\ zone' = st.zone
          /\ vssl' = st.vssl
          /\ publish_tasks' = publish_tasks \o st.events
          /\ rx' = IF st.raised = "none"
                   THEN InitRx
                   ELSE [pc |-> "dead", data |-> <<>>, length |-> 0]
    /\ buffer' = SubSeq(buffer, rx.length + 1, Len(buffer))
    /\ UNCHANGED <<proto, frames, wire, eof, lost, connVars, prop_log,
                   subscribers, event_queue, running, bus_pc, futures, bus_log>>

\* the receive loop waits for bytes
ReaderWaits ==
    CASE rx.pc = "first" -> Len(buffer) < FRIST_BYTE
      [] rx.pc = "header" -> Len(buffer) < HEADER_LENGTH(proto) - FRIST_BYTE
      [] rx.pc = "payload" -> Len(buffer) < rx.length
      [] OTHER -> FALSE

FrameInit ==
    /\ proto \in Protocols
    /\ frames \in UNION { [1..n -> ValidFrames(proto)] : n \in 0..MaxFrames }
    /\ wire = Concat(frames)
    /\ buffer = <<>>
    /\ rx = InitRx
    /\ dispatched = <<>>
    /\ eof = FALSE
    /\ lost = [n |-> 0, partial |-> FALSE]
    /\ ConnIdle
    /\ BusIdle
    /\ PropIdle

FrameNext ==
    \/ \E n \in ChunkSizes : FeedChunk(n)
    \/ ReadFirstByte
    \/ ReadHeader
    \/ ReadPayload

FrameSpec == FrameInit /\ [][FrameNext]_vars

PeerCloses ==
    /\ ~eof
    /\ rx.pc # "lost"
    /\ eof' = TRUE
    /\ UNCHANGED <<proto, frames, wire, buffer, rx, dispatched, lost,
                   connVars, busVars, propVars>>

\* StreamReader.read at end of stream returns the bytes it has
read_at_eof(partial) == [error |-> "none", data |-> partial]
\* StreamReader.readexactly at end of stream raises IncompleteReadError
readexactly_at_eof(partial) == [error |-> "IncompleteReadError", data |-> <<>>]

\* the pending readexactly of the receive loop fails at end of stream; the
\* except clause of _receive_first_byte calls reconnect()
ReadIncomplete ==
    /\ eof
    /\ ReaderWaits
    /\ LET r == readexactly_at_eof(rx.data \o buffer)
       IN /\ rx' = [pc |-> IF r.error = "none" THEN "first" ELSE "lost",
                    data |-> <<>>, length |-> 0]
          /\ dispatched' = IF r.error = "none"
                           THEN Append(dispatched, [handler |-> "_handle_response",
                                                    data |-> r.data])
                           ELSE dispatched
    /\ buffer' = <<>>
    /\ lost' = [n |-> lost.n + 1, partial |-> rx.data \o buffer # <<>>]
    /\ UNCHANGED <<proto, frames, wire, eof, connVars, busVars, propVars>>

\* connect() succeeds again: open_connection returns a new StreamReader and
\* a new receive loop is started; the device sends a new stream
Reconnected ==
    /\ rx.pc = "lost"
    /\ lost.n < MaxConnections
    /\ frames' \in UNION { [1..n -> ValidFrames(proto)] : n \in 0..MaxFrames }
    /\ wire' = Concat(frames')
    /\ buffer' = <<>>
    /\ rx' = InitRx
    /\ dispatched' = <<>>
    /\ eof' = FALSE
    /\ UNCHANGED <<proto, lost, connVars, busVars, propVars>>

ShortReadNext ==
    \/ \E n \in ChunkSizes : FeedChunk(n)
    \/ ReadFirstByte
    \/ ReadHeader
    \/ ReadPayload
    \/ PeerCloses
    \/ ReadIncomplete
    \/ Reconnected

ShortReadSpec == FrameInit /\ [][ShortReadNext]_vars

\* the number of frames of the stream whose bytes have all arrived
RECURSIVE CompleteFrames(_, _)
CompleteFrames(fs, n) ==
    IF fs = <<>> \/ Len(Head(fs)) > n
    THEN 0
    ELSE 1 + CompleteFrames(Tail(fs), n - Len(Head(fs)))

Arrived == Len(Concat(frames)) - Len(wire)

\* C11: on every connection only whole frames of that connection's stream are
\* handed to the handlers, byte for byte; when the peer closes in the middle
\* of a frame the receive loop ends in reconnect() having handed over exactly
\* the frames that arrived whole, and the next connection starts with an
\* empty buffer.
C11_ShortRead ==
    /\ \A k \in DOMAIN dispatched :
          k <= Len(frames) /\ dispatched[k].data = frames[k]
    /\ rx.pc = "lost" => Len(dispatched) = CompleteFrames(frames, Arrived)
    /\ (eof /\ ReaderWaits) => Len(dispatched) = CompleteFrames(frames, Arrived)
    /\ (rx.pc = "first" /\ dispatched = <<>> /\ Arrived = 0) => buffer = <<>>

\* a connection ended in the middle of a frame, and a frame of the next
\* connection has been handed over
C11_Witness ==
    /\ lost.n = 1
    /\ lost.partial
    /\ dispatched # <<>>
    /\ rx.pc = "first"

\* ---------------------------------------------------------------------------
\* Frames with malformed content
\* ---------------------------------------------------------------------------
\* well-framed messages whose content the handler of their action cannot read:
\* an input name without the input id, names that are not ASCII text
MalformedFrames(p) ==
    IF p = "alpha"
    THEN { <<16, 22, 0>>, <<16, 22, 2, 12, 200>>, <<16, 25, 2, 0, 200>> }
    ELSE { <<170, 170, 2, 0, 90, 0, 0, 0, 0, 1, 200>> }

\* the same messages with a name the handler can read
WellFormedFrames(p) ==
    IF p = "alpha"
    THEN { <<16, 22, 2, 12, 65>>, <<16, 25, 2, 0, 66>> }
    ELSE { <<170, 170, 2, 0, 90, 0, 0, 0, 0, 1, 67>> }

HandlerInit ==
    /\ proto \in Protocols
    /\ frames \in UNION { [1..n -> MalformedFrames(proto) \cup WellFormedFrames(proto)] :
                            n \in 0..MaxFrames }
    /\ wire = Concat(frames)
    /\ buffer = <<>>
    /\ rx = InitRx
    /\ dispatched = <<>>
    /\ eof = FALSE
    /\ lost = [n |-> 0, partial |-> FALSE]
    /\ ConnIdle
    /\ BusIdle
    /\ PropIdle

HandlerNext ==
    \/ \E n \in ChunkSizes : FeedChunk(n)
    \/ ReadFirstByte
    \/ ReadHeader
    \/ ReadPayload

HandlerSpec == HandlerInit /\ [][HandlerNext]_vars

\* C12: a frame with malformed content does not end the receive loop, and
\* as long as only such frames have been handed to the handlers nothing of
\* the zone or the device has changed and no event has been published.
C12_MalformedContent ==
    /\ rx.pc # "dead"
    /\ (\A k \in DOMAIN dispatched : dispatched[k].data \in MalformedFrames(proto)) =>
          /\ zone = InitZone
          /\ vssl = InitVssl
          /\ publish_tasks = <<>>

\* ---------------------------------------------------------------------------
\* Volume and gain requests of protocol A (api_alpha.py)
\* ---------------------------------------------------------------------------
MaxRequests == 1
MaxOver == 3

\* the values given to the request builders: the valid range and MaxOver
\* integers on each side of it
VolumeInputs == (0 - MaxOver)..(100 + MaxOver)

_add_zone_id_to_request(command, z) == [command EXCEPT ![4] = z.id]

\* set volume
request_action_05(z, vol) ==
    _add_zone_id_to_request(<<16, 5, 3, 0, clamp_volume(vol), 3>>, z)
\* set default on volume
request_action_05_08(z, vol) ==
    _add_zone_id_to_request(<<16, 5, 3, 0, clamp_volume(vol), 8>>, z)
\* set analog input fixed gain
request_action_05_00(z, gain) ==
    _add_zone_id_to_request(<<16, 5, 3, 0, clamp_volume(gain), 0>>, z)
\* set max left volume
request_action_05_01(z, vol) ==
    _add_zone_id_to_request(<<16, 5, 3, 0, clamp_volume(vol), 1>>, z)
\* set max right volume
request_action_05_02(z, vol) ==
    _add_zone_id_to_request(<<16, 5, 3, 0, clamp_volume(vol), 2>>, z)

VolumeBuilders == {"05", "05_08", "05_00", "05_01", "05_02"}

volume_request(b, z, v) ==
    CASE b = "05" -> request_action_05(z, v)
      [] b = "05_08" -> request_action_05_08(z, v)
      [] b = "05_00" -> request_action_05_00(z, v)
      [] b = "05_01" -> request_action_05_01(z, v)
      [] b = "05_02" -> request_action_05_02(z, v)

\* a caller invokes one of the builders, which hands its command to send()
RequestVolume(b, v) ==
    /\ Len(api.writer_queue) < MaxRequests
    /\ api' = [send(api, volume_request(b, zone, v)) EXCEPT
                  !.requested = Append(@, [builder |-> b, arg |-> v])]
    /\ UNCHANGED <<calls, clean, terminal, busVars, propVars, frameVars>>

\* the connection right after a first connect() has returned
RequestInit ==
    /\ api = connect_success(InitApi)
    /\ calls = 1
    /\ clean = FALSE
    /\ terminal = FALSE
    /\ BusIdle
    /\ PropIdle
    /\ FrameIdle

RequestNext == \E b \in VolumeBuilders, v \in VolumeInputs : RequestVolume(b, v)

RequestSpec == RequestInit /\ [][RequestNext]_vars

\* C18: every builder of an absolute volume or gain request queues a command
\* whose value byte is 0 for an input below 0, 100 for an input above 100
\* and the input itself otherwise; clamping twice is clamping once; no
\* queued command carries a value outside 0..100
C18_ClampedRequests ==
    /\ Len(api.writer_queue) = Len(api.requested)
    /\ \A k \in DOMAIN api.writer_queue :
          LET command == api.writer_queue[k]
              v == api.requested[k].arg
          IN /\ command[5] = IF v < 0 THEN 0 ELSE IF v > 100 THEN 100 ELSE v
             /\ command[5] \in 0..100
             /\ command[4] = zone.id
             /\ clamp_volume(command[5]) = command[5]

\* a default-on volume request built from an input above the range is in
\* the queue with the ceiling as its value
C18_Witness ==
    /\ api.writer_queue # <<>>
    /\ api.requested[1] = [builder |-> "05_08", arg |-> 100 + MaxOver]
    /\ api.writer_queue[1] = <<16, 5, 3, 1, 100, 8>>

\* ---------------------------------------------------------------------------
\* Equaliser values (settings.py, EQSettings)
\* ---------------------------------------------------------------------------
MIN_VALUE == 90
MAX_VALUE == 110
MIN_VALUE_DB == -10
MAX_VALUE_DB == 10

MaxEqOver == 2

\* int() of the quotient n / d, d > 0: rounds towards zero
int_div(n, d) == IF n >= 0 THEN n \div d ELSE 0 - ((0 - n) \div d)

\* EQSettings._clamp of the quotient n / d
EQSettings__clamp(n, d) ==
    IF n <= MIN_VALUE * d THEN MIN_VALUE
    ELSE IF n >= MAX_VALUE * d THEN MAX_VALUE
    ELSE int_div(n, d)

\* EQSettings._map_clamp; the divisions of the source are kept exact by
\* carrying the denominator to the final int()
EQSettings__map_unclamped(input_value, to_db) ==
    IF to_db THEN input_value - 100 ELSE input_value + 100
EQSettings__map_clamp(input_value, to_db) ==
    IF to_db
    THEN LET clamped_value == EQSettings__clamp(input_value, 1)
         IN int_div((clamped_value - MIN_VALUE) * 20
                        - MAX_VALUE_DB * (MAX_VALUE - MIN_VALUE),
                    MAX_VALUE - MIN_VALUE)
    ELSE EQSettings__clamp((input_value + MAX_VALUE_DB) * (MAX_VALUE - MIN_VALUE)
                               + MIN_VALUE * 20, 20)

\* EQSettings.Freqs
Freqs == 1..7

request_action_0D(z, freq, value) ==
    LET clamped == Max2(MIN_VALUE, Min2(value, MAX_VALUE))
    IN _add_zone_id_to_request(<<16, 13, 3, 0, freq, clamped>>, z)

\* EQSettings._set_frequency_on_device
_set_frequency_on_device(S, z, freq, value) ==
    send(S, request_action_0D(z, freq, EQSettings__clamp(value, 1)))

\* EQSettings._set_frequency_on_device_db
_set_frequency_on_device_db(S, z, freq, value) ==
    _set_frequency_on_device(S, z, freq, EQSettings__map_clamp(value, FALSE))

RawInputs == (MIN_VALUE - MaxEqOver)..(MAX_VALUE + MaxEqOver)
DbInputs == (MIN_VALUE_DB - MaxEqOver)..(MAX_VALUE_DB + MaxEqOver)

\* the setter of a band: eq.hz60 = value, ...
SetFrequency(freq, value) ==
    /\ Len(api.writer_queue) < MaxRequests
    /\ api' = [_set_frequency_on_device(api, zone, freq, value) EXCEPT
                  !.requested = Append(@, [builder |-> "0D", arg |-> value])]
    /\ UNCHANGED <<calls, clean, terminal, busVars, propVars, frameVars>>

\* the dB setter of a band: eq.hz60_db = value, ...
SetFrequencyDb(freq, value) ==
    /\ Len(api.writer_queue) < MaxRequests
    /\ api' = [_set_frequency_on_device_db(api, zone, freq, value) EXCEPT
                  !.requested = Append(@, [builder |-> "0D_db", arg |-> value])]
    /\ UNCHANGED <<calls, clean, terminal, busVars, propVars, frameVars>>

EqNext ==
    \/ \E freq \in Freqs, value \in RawInputs : SetFrequency(freq, value)
    \/ \E freq \in Freqs, value \in DbInputs : SetFrequencyDb(freq, value)

EqSpec == RequestInit /\ [][EqNext]_vars

\* C19: a raw value of 90..110 converted to dB and back is the same value;
\* 90, 100 and 110 correspond to -10, 0 and +10 dB in both directions; every
\* input, also one outside the range, is mapped into -10..10 respectively
\* 90..110, and the value sent for a dB input d of -10..10 is 100 + d
C19_EqMapping ==
    /\ \A v \in MIN_VALUE..MAX_VALUE :
          EQSettings__map_clamp(EQSettings__map_clamp(v, TRUE), FALSE) = v
    /\ EQSettings__map_clamp(90, TRUE) = -10
    /\ EQSettings__map_clamp(100, TRUE) = 0
    /\ EQSettings__map_clamp(110, TRUE) = 10
    /\ EQSettings__map_clamp(-10, FALSE) = 90
    /\ EQSettings__map_clamp(0, FALSE) = 100
    /\ EQSettings__map_clamp(10, FALSE) = 110
    /\ \A v \in RawInputs : EQSettings__map_clamp(v, TRUE) \in -10..10
    /\ \A d \in DbInputs : EQSettings__map_clamp(d, FALSE) \in 90..110
    /\ \A k \in DOMAIN api.writer_queue :
          LET value == api.writer_queue[k][6]
              arg == api.requested[k].arg
          IN /\ value \in 90..110
             /\ EQSettings__map_clamp(EQSettings__map_clamp(value, TRUE), FALSE) = value
             /\ api.requested[k].builder = "0D_db" /\ arg \in -10..10 =>
                   /\ value = 100 + arg
                   /\ EQSettings__map_clamp(value, TRUE) = arg

\* a dB value above the range was given to a dB setter and the ceiling of
\* the raw range is in the queue
C19_Witness ==
    /\ api.writer_queue # <<>>
    /\ api.requested[1] = [builder |-> "0D_db", arg |-> MAX_VALUE_DB + MaxEqOver]
    /\ api.writer_queue[1][6] = 110

\* ---------------------------------------------------------------------------
\* Zone initialisation (zone.py, Zone.initialise)
\* ---------------------------------------------------------------------------
MaxReports == 2

\* serial numbers are strings of digits, written here as numbers
Serials == {11, 12}
ReportedIds == {1, 2}

\* the status messages of the device: the id and the serial number are keys
\* that a message may or may not have
StatusReports ==
    [has_id : BOOLEAN, id : ReportedIds, has_mc : BOOLEAN, mc : Serials]

\* Zone.id setter: the configured id is kept, the reported one is published
Zone_id_setter(z, zone_id) ==
    IF ~z.initialised
    THEN <<[type |-> "ID_RECEIVED", entity |-> z.id, data |-> zone_id]>>
    ELSE <<>>

\* Zone._set_property("serial", ...) through the direct setter _set_serial
Zone__set_serial(z, serial) ==
    IF ~z.initialised
    THEN [obj |-> [z EXCEPT !._serial = serial],
          events |-> <<[type |-> "SERIAL_RECEIVED", entity |-> z.id, data |-> serial]>>]
    ELSE [obj |-> z, events |-> <<>>]

\* Vssl._set_property("serial", ...)
Vssl__set_serial(v, serial) ==
    IF v._serial # serial
    THEN [obj |-> [v EXCEPT !._serial = serial],
          events |-> <<[type |-> "SERIAL_CHANGE", entity |-> ENTITY_ID, data |-> serial]>>]
    ELSE [obj |-> v, events |-> <<>>]

\* APIAlpha.response_action_00_08, for a message with none of the other keys
response_action_00_08(z, v, metadata) ==
    IF z.initialised
    THEN [zone |-> z, vssl |-> v, events |-> <<>>]
    ELSE LET e1 == IF metadata.has_id THEN Zone_id_setter(z, metadata.id) ELSE <<>>
             r2 == IF metadata.has_mc /\ v._serial = NoSerial
                   THEN Vssl__set_serial(v, metadata.mc)
                   ELSE [obj |-> v, events |-> <<>>]
             r3 == IF metadata.has_mc /\ z._serial = NoSerial
                   THEN Zone__set_serial(z, metadata.mc)
                   ELSE [obj |-> z, events |-> <<>>]
         IN [zone |-> r3.obj, vssl |-> r2.obj,
             events |-> e1 \o r2.events \o r3.events]

\* Zone.initialise up to the first await: the futures are registered; the
\* coroutines made by the two connect() calls are not awaited here
InitialiseStart ==
    /\ zone.initialise.pc = "idle"
    /\ zone' = [zone EXCEPT !.initialise.pc = "wait_connected",
                            !.initialise.future_id.state = "pending",
                            !.initialise.future_serial.state = "pending"]
    /\ UNCHANGED <<vssl, prop_log, connVars, busVars, frameVars>>

\* a task that awaits connect() of the protocol A connection succeeds
AlphaConnected ==
    /\ ~api.connected
    /\ api.nsock = 0
    /\ api' = connect_success(api)
    /\ UNCHANGED <<calls, clean, terminal, busVars, propVars, frameVars>>

\* a task that awaits connect() of the protocol A connection sees it fail:
\* the ZoneConnectionError is raised in that task
AlphaRefused ==
    /\ zone.initialise.pc = "wait_connected"
    /\ ~api.connected
    /\ api.nsock = 0
    /\ ~zone.initialise.connect_error
    /\ api' = connect_failure(api)
    /\ zone' = [zone EXCEPT !.initialise.connect_error = TRUE]
    /\ UNCHANGED <<vssl, prop_log, calls, clean, terminal, busVars, frameVars>>

\* the same for the protocol B connection
BravoConnected ==
    /\ ~zone.initialise.bravo_connected
    /\ zone.initialise.pc \in {"idle", "wait_connected"}
    /\ zone' = [zone EXCEPT !.initialise.bravo_connected = TRUE]
    /\ UNCHANGED <<vssl, prop_log, connVars, busVars, frameVars>>

\* both connection events are set: the poller is started and initialise
\* awaits the future of the id
InitialiseConnected ==
    /\ zone.initialise.pc = "wait_connected"
    /\ api.connected
    /\ zone.initialise.bravo_connected
    /\ zone' = [zone EXCEPT !.initialise.pc = "await_id",
                            !.initialise.poller = "running"]
    /\ UNCHANGED <<vssl, prop_log, connVars, busVars, frameVars>>

\* a status message arrives on the protocol A connection
StatusReport(metadata) ==
    /\ api.connected
    /\ Len(zone.reported) < MaxReports
    /\ LET r == response_action_00_08(zone, vssl, metadata)
       IN /\ zone' = [r.zone EXCEPT !.reported = Append(@, metadata)]
          /\ vssl' = r.vssl
          /\ publish_tasks' = publish_tasks \o r.events
    /\ UNCHANGED <<prop_log, connVars, subscribers, event_queue, running,
                   bus_pc, futures, bus_log, frameVars>>

\* the oldest published event is delivered: the callback of a pending future
\* registered for the event and the zone sets its result and is removed
DeliverEvent ==
    /\ publish_tasks # <<>>
    /\ LET event == Head(publish_tasks)
           i == zone.initialise
       IN zone' =
             IF event.entity = zone.id /\ event.type = "ID_RECEIVED"
                   /\ i.future_id.state = "pending"
             THEN [zone EXCEPT !.initialise.future_id =
                                  [state |-> "done", result |-> event.data]]
             ELSE IF event.entity = zone.id /\ event.type = "SERIAL_RECEIVED"
                        /\ i.future_serial.state = "pending"
                  THEN [zone EXCEPT !.initialise.future_serial =
                                       [state |-> "done", result |-> event.data]]
                  ELSE zone
    /\ publish_tasks' = Tail(publish_tasks)
    /\ UNCHANGED <<vssl, prop_log, connVars, subscribers, event_queue, running,
                   bus_pc, futures, bus_log, frameVars>>

\* received_id = await future_id
InitialiseGotId ==
    /\ zone.initialise.pc = "await_id"
    /\ zone.initialise.future_id.state = "done"
    /\ zone' = [zone EXCEPT !.initialise.pc = "await_serial",
                            !.initialise.received_id = zone.initialise.future_id.result]
    /\ UNCHANGED <<vssl, prop_log, connVars, busVars, frameVars>>

\* the two checks of initialise
id_mismatch(z, received_id) == received_id # z.id
serial_unchecked(v, received_serial) == FALSE
serial_mismatch(v, received_serial) == v._serial # received_serial

\* received_serial = await future_serial, then the checks: a mismatch
\* disconnects the zone and raises ZoneInitialisationError, otherwise the
\* zone is initialised and INITIALISED is published
InitialiseGotSerial ==
    /\ zone.initialise.pc = "await_serial"
    /\ zone.initialise.future_serial.state = "done"
    /\ LET received_serial == zone.initialise.future_serial.result
           z == [zone EXCEPT !.initialise.received_serial = received_serial]
       IN IF id_mismatch(z, z.initialise.received_id)
               \/ serial_mismatch(vssl, received_serial)
          THEN /\ zone' = [z EXCEPT !.initialise.pc = "closing",
                                    !.initialise.poller = "cancelled"]
               /\ api' = disconnect_begin(api)
               /\ UNCHANGED publish_tasks
          ELSE /\ zone' = [z EXCEPT !.initialise.pc = "done", !.initialised = TRUE,
                                    !.initialise.published = @ + 1]
               /\ api' = api
               /\ publish_tasks' =
                     Append(publish_tasks,
                            [type |-> "INITIALISED", entity |-> z.id, data |-> z.id])
    /\ UNCHANGED <<vssl, prop_log, calls, clean, terminal, subscribers, event_queue,
                   running, bus_pc, futures, bus_log, frameVars>>

\* the disconnect() of the failed initialise returns and the error is raised
InitialiseFailed ==
    /\ zone.initialise.pc = "closing"
    /\ zone' = [zone EXCEPT !.initialise.pc = "failed",
                            !.initialise.bravo_connected = FALSE]
    /\ api' = disconnect_end(api)
    /\ UNCHANGED <<vssl, prop_log, calls, clean, terminal, busVars, frameVars>>

\* a zone of a device whose serial number is not yet known, or was set by a
\* zone initialised before this one
InitialiseInit ==
    /\ ConnIdle
    /\ BusIdle
    /\ FrameIdle
    /\ zone = InitZone
    /\ vssl \in {InitVssl} \cup {[InitVssl EXCEPT !._serial = a] : a \in Serials}
    /\ prop_log = [owner |-> "none", name |-> "none", value |-> 0,
                   zone |-> InitZone, vssl |-> InitVssl, events |-> <<>>]

InitialiseNext ==
    \/ InitialiseStart
    \/ AlphaConnected
    \/ AlphaRefused
    \/ BravoConnected
    \/ InitialiseConnected
    \/ \E metadata \in StatusReports : StatusReport(metadata)
    \/ DeliverEvent
    \/ InitialiseGotId
    \/ InitialiseGotSerial
    \/ InitialiseFailed

InitialiseSpec == InitialiseInit /\ [][InitialiseNext]_vars

\* C20: while the zone is initialised, and while its INITIALISED event is
\* published, the device has reported the configured id of the zone and the
\* serial number of the device, the id that initialise received is the
\* configured id and the serial number it received is that of the device
C20_InitialisedAfterChecks ==
    (zone.initialised
        \/ \E k \in DOMAIN publish_tasks : publish_tasks[k].type = "INITIALISED") =>
       /\ zone.initialised
       /\ \E k \in DOMAIN zone.reported :
             zone.reported[k].has_id /\ zone.reported[k].id = zone.id
       /\ \E k \in DOMAIN zone.reported :
             zone.reported[k].has_mc /\ zone.reported[k].mc = vssl._serial
       /\ zone.initialise.received_id = zone.id
       /\ zone.initialise.received_serial = vssl._serial
       /\ zone._serial = vssl._serial

\* the zone is initialised: its first status message had the configured id
\* and no serial number, the second one had the serial number of the device
C20_Witness ==
    /\ zone.initialised
    /\ Len(zone.reported) = 2
    /\ zone.reported[1].has_id
    /\ ~zone.reported[1].has_mc
    /\ zone.reported[2].has_mc
    /\ zone._serial = 12

\* Zone.initialise with the scheduling of asyncio: a task that can run does
\* run, and the event bus delivers what was published.  Nothing obliges the
\* device to send a status message or to accept a connection.
InitialiseFairSpec ==
    /\ InitialiseInit
    /\ [][InitialiseNext]_vars
    /\ WF_zone(InitialiseStart)
    /\ WF_zone(InitialiseConnected)
    /\ WF_(Len(publish_tasks))(DeliverEvent)
    /\ WF_zone(InitialiseGotId)
    /\ WF_zone(InitialiseGotSerial)
    /\ WF_zone(InitialiseFailed)

InitialiseEnded == zone.initialise.pc \in {"done", "failed"}

\* C21: once both connections are open and initialise waits for the id or
\* the serial number of the zone, initialise ends: it returns or it raises,
\* also when the device reports neither
C21_InitialiseTerminates ==
    (zone.initialise.pc \in {"await_id", "await_serial"}) ~> InitialiseEnded

\* Zone.initialise while the protocol A connection is lost: the receive loop
\* gets a read error and reconnects
InitialiseLossNext ==
    \/ InitialiseNext
    \/ \E i \in Tasks : ReceiveStart(i)
    \/ \E i \in Tasks : SendStart(i)
    \/ \E i \in Tasks : KeepaliveStart(i)
    \/ \E i \in Tasks : ReceiveError(i)
    \/ \E i \in Tasks : ReconnectResume(i)
    \/ \E i \in Tasks : DeliverCancel(i)
    \/ \E i \in Tasks : KeepConnectedStart(i)
    \/ \E i \in Tasks : KeepConnectedOpened(i)

InitialiseLossSpec == InitialiseInit /\ [][InitialiseLossNext]_vars

\* what the futures of initialise hold is not the configured id, or not the
\* serial number of the device
Mismatch ==
    \/ zone.initialise.future_id.result # zone.id
    \/ zone.initialise.future_serial.result # vssl._serial

\* C22: when initialise has received an id that is not the configured one or
\* a serial number that is not that of the device, it disconnects and
\* raises: the poller is cancelled, both connections are closed once the
\* error is raised, the zone is not initialised and no INITIALISED event was
\* published
C22_MismatchIsFatal ==
    /\ (zone.initialise.pc \in {"closing", "failed", "done"} /\ Mismatch) =>
          /\ zone.initialise.pc \in {"closing", "failed"}
          /\ zone.initialise.poller = "cancelled"
          /\ ~zone.initialised
          /\ zone.initialise.published = 0
          /\ \A k \in DOMAIN publish_tasks : publish_tasks[k].type # "INITIALISED"
    /\ (zone.initialise.pc = "failed") =>
          /\ Mismatch
          /\ ~api.connected
          /\ api.open = {}
          /\ ~zone.initialise.bravo_connected

\* initialise has raised after the device reported the configured id and a
\* serial number that is not that of the device
C22_Witness ==
    /\ zone.initialise.pc = "failed"
    /\ zone.initialise.received_id = zone.id
    /\ zone.initialise.received_serial = 12
    /\ vssl._serial = 11
    /\ api.nsock = 1

\* C23: when a connect() of the zone has failed, initialise has raised and
\* the zone is not initialised; the poller runs only after both connections
\* were made
C23_ConnectErrorRaised ==
    /\ zone.initialise.connect_error =>
          zone.initialise.pc = "failed" /\ ~zone.initialised
    /\ zone.initialise.poller = "running" =>
          api.connected /\ zone.initialise.bravo_connected

\* ---------------------------------------------------------------------------
\* Device session: the zones of a device (core.py, Vssl.add_zone)
\* ---------------------------------------------------------------------------
MaxHosts == 2

\* Zone.IDs
ZoneIDs == 1 .. 6
\* the hosts are numbered
Hosts == 1 .. MaxHosts
\* the zone ids passed to add_zone: the valid ones and two that are not
ZoneIndexes == 0 .. 7

\* Zone.__init__, for a zone whose connections are not modelled in detail
NewZone(zone_id, host) ==
    [id |-> zone_id, host |-> host, pc |-> "idle", connected |-> FALSE,
     initialised |-> FALSE, poller |-> "idle",
     track |-> TrackDefaults, transport |-> TransportDefaults,
     group |-> GroupDefaults]

HasId(v, zone_index) == \E k \in DOMAIN v.zones : v.zones[k].id = zone_index
HasHost(v, host) == \E k \in DOMAIN v.zones : v.zones[k].host = host

\* Vssl.add_zone: the zone is added, or ZoneError is raised
add_zone_any_host(v, zone_index, host) ==
    IF zone_index \notin ZoneIDs \/ HasId(v, zone_index)
    THEN [obj |-> v, error |-> "ZoneError"]
    ELSE [obj |-> [v EXCEPT !.zones = Append(@, NewZone(zone_index, host))],
          error |-> "none"]
add_zone(v, zone_index, host) ==
    IF zone_index \notin ZoneIDs \/ HasId(v, zone_index) \/ HasHost(v, host)
    THEN [obj |-> v, error |-> "ZoneError"]
    ELSE [obj |-> [v EXCEPT !.zones = Append(@, NewZone(zone_index, host))],
          error |-> "none"]

\* a caller invokes add_zone
AddZone(zone_index, host) ==
    /\ LET r == add_zone(vssl, zone_index, host)
       IN vssl' = [r.obj EXCEPT !.last_add =
                      [zone_index |-> zone_index, host |-> host,
                       error |-> r.error, before |-> vssl.zones]]
    /\ UNCHANGED <<zone, prop_log, connVars, busVars, frameVars>>

AddZoneInit ==
    /\ ConnIdle
    /\ BusIdle
    /\ FrameIdle
    /\ PropIdle

AddZoneNext == \E zone_index \in ZoneIndexes, host \in Hosts : AddZone(zone_index, host)

AddZoneSpec == AddZoneInit /\ [][AddZoneNext]_vars

\* C27: no two zones of the device have the same id or the same host and
\* every id is one of 1..6; the last add_zone call raised ZoneError exactly
\* when its id is not one of 1..6 or a zone had that id or that host, and
\* then it left the zones as they were, otherwise it added the zone
C27_AddZone ==
    /\ \A j, k \in DOMAIN vssl.zones :
          /\ vssl.zones[j].id \in 1 .. 6
          /\ j # k => /\ vssl.zones[j].id # vssl.zones[k].id
                      /\ vssl.zones[j].host # vssl.zones[k].host
    /\ LET a == vssl.last_add
           bad == \/ a.zone_index < 1
                  \/ a.zone_index > 6
                  \/ \E k \in DOMAIN a.before :
                        \/ a.before[k].id = a.zone_index
                        \/ a.before[k].host = a.host
       IN a.host # 0 =>
             /\ (a.error = "ZoneError") = bad
             /\ bad => vssl.zones = a.before
             /\ ~bad => /\ Len(vssl.zones) = Len(a.before) + 1
                        /\ \A k \in DOMAIN a.before : vssl.zones[k] = a.before[k]
                        /\ vssl.zones[Len(vssl.zones)].id = a.zone_index
                        /\ vssl.zones[Len(vssl.zones)].host = a.host

\* two zones were added, then an add_zone with a new id and the host of the
\* first zone raised
C27_Witness ==
    /\ Len(vssl.zones) = 2
    /\ vssl.last_add.error = "ZoneError"
    /\ vssl.last_add.zone_index \in 1 .. 6
    /\ ~HasId(vssl, vssl.last_add.zone_index)
    /\ vssl.last_add.host = vssl.zones[1].host

\* ---------------------------------------------------------------------------
\* Device session: Vssl.initialise (core.py)
\*
\* The zone that initialise takes first (popitem: the zone added last) is
\* the zone of the variables zone and api; the other zones of vssl.zones are
\* kept as records: pc is the position of their Zone.initialise.
\* ---------------------------------------------------------------------------
MaxSiblings == 3

\* the zone quantity of a model given to Vssl(): no model, A.1, A.3
PreConfigured == {0, 1, 3}
\* the number of keys B<n>Src of a device status message
KeyCounts == 0 .. 6

Siblings(v) == 1 .. (Len(v.zones) - 1)

\* the zones of a device with n zones besides zone 1, which was added last
Configured(n) ==
    [k \in 1 .. (n + 1) |-> IF k = n + 1 THEN NewZone(1, 1) ELSE NewZone(k + 1, k + 1)]

\* an inference that does not look at the quantity it has
_infer_model_zone_qty_always(v, zone_count) ==
    LET qty == IF zone_count \in {1, 3, 6} THEN zone_count ELSE 1
    IN [obj |-> [v EXCEPT !._model_zone_qty = qty],
        events |-> <<[type |-> "MODEL_ZONE_QTY_CHANGE", entity |-> ENTITY_ID,
                      data |-> qty]>>]
\* Vssl._infer_model_zone_qty
_infer_model_zone_qty(v, zone_count) ==
    IF v._model_zone_qty = 0
    THEN LET qty == IF zone_count \in {1, 3, 6} THEN zone_count ELSE 1
         IN [obj |-> [v EXCEPT !._model_zone_qty = qty],
             events |-> <<[type |-> "MODEL_ZONE_QTY_CHANGE", entity |-> ENTITY_ID,
                           data |-> qty]>>]
    ELSE [obj |-> v, events |-> <<>>]

\* Vssl.initialise up to the first await, which is inside the initialise of
\* the first zone
VsslInitialiseStart ==
    /\ vssl.initialise.pc = "idle"
    /\ IF Len(vssl.zones) < 1
       THEN /\ vssl' = [vssl EXCEPT !.initialise.pc = "failed",
                                    !.initialise.error = "no zones"]
            /\ zone' = zone
       ELSE /\ vssl' = [vssl EXCEPT
                          !.initialise.pc = "first_zone",
                          !.initialise.future_model_zone_qty =
                              IF vssl._model_zone_qty = 0 THEN "pending" ELSE "none"]
            /\ zone' = [zone EXCEPT !.initialise.pc = "wait_connected",
                                    !.initialise.future_id.state = "pending",
                                    !.initialise.future_serial.state = "pending"]
    /\ UNCHANGED <<prop_log, connVars, busVars, frameVars>>

\* a device status message arrives on the protocol A connection of the
\* first zone: APIAlpha.response_action_00_00, the zone quantity only
DeviceStatus(zone_count) ==
    /\ api.connected
    /\ LET r == _infer_model_zone_qty(vssl, zone_count)
       IN /\ vssl' = r.obj
          /\ publish_tasks' = publish_tasks \o r.events
    /\ UNCHANGED <<zone, prop_log, connVars, subscribers, event_queue, running,
                   bus_pc, futures, bus_log, frameVars>>

\* the oldest published event is delivered to the future registered for it
DeviceDeliverEvent ==
    /\ publish_tasks # <<>>
    /\ LET event == Head(publish_tasks)
           i == zone.initialise
       IN /\ zone' =
                IF event.entity = zone.id /\ event.type = "ID_RECEIVED"
                      /\ i.future_id.state = "pending"
                THEN [zone EXCEPT !.initialise.future_id =
                                     [state |-> "done", result |-> event.data]]
                ELSE IF event.entity = zone.id /\ event.type = "SERIAL_RECEIVED"
                           /\ i.future_serial.state = "pending"
                     THEN [zone EXCEPT !.initialise.future_serial =
                                          [state |-> "done", result |-> event.data]]
                     ELSE zone
          /\ vssl' =
                IF event.entity = ENTITY_ID /\ event.type = "MODEL_ZONE_QTY_CHANGE"
                      /\ vssl.initialise.future_model_zone_qty = "pending"
                THEN [vssl EXCEPT !.initialise.future_model_zone_qty = "done"]
                ELSE vssl
    /\ publish_tasks' = Tail(publish_tasks)
    /\ UNCHANGED <<prop_log, connVars, subscribers, event_queue, running,
                   bus_pc, futures, bus_log, frameVars>>

\* Zone.disconnect of the first zone, up to the await of the close
first_zone_disconnect(z) == [z EXCEPT !.initialise.poller = "cancelled"]

\* Zone.disconnect of every other zone
siblings_disconnect(v) ==
    [v EXCEPT !.zones = [k \in DOMAIN v.zones |->
                            IF k \in Siblings(v)
                            THEN [v.zones[k] EXCEPT
                                    !.connected = FALSE,
                                    !.poller = IF @ = "running" THEN "cancelled" ELSE @]
                            ELSE v.zones[k]]]

\* Vssl.initialise, lines 80-97, once the zone quantity is known: too many
\* zones make it disconnect the first zone and raise, otherwise the
\* initialise of every other zone is started and gathered
zone_count_exceeded(v) == Len(v.zones) > v._model_zone_qty

check_zone_count(v) ==
    IF zone_count_exceeded(v)
    THEN [v EXCEPT !.initialise.pc = "closing",
                   !.initialise.error = "zone count"]
    ELSE [v EXCEPT !.initialise.pc = "gather",
                   !.zones = [k \in DOMAIN v.zones |->
                                 IF k \in Siblings(v)
                                 THEN [v.zones[k] EXCEPT !.pc = "wait_connected"]
                                 ELSE v.zones[k]]]

AfterCheck(v) ==
    /\ vssl' = v
    /\ IF v.initialise.pc = "closing"
       THEN /\ zone' = first_zone_disconnect(zone)
            /\ api' = disconnect_begin(api)
       ELSE /\ zone' = zone
            /\ api' = api

\* the initialise of the first zone has returned
VsslFirstZoneDone ==
    /\ vssl.initialise.pc = "first_zone"
    /\ zone.initialise.pc = "done"
    /\ IF vssl._model_zone_qty = 0
       THEN /\ vssl' = [vssl EXCEPT !.initialise.pc = "wait_qty"]
            /\ UNCHANGED <<zone, api>>
       ELSE AfterCheck(check_zone_count(vssl))
    /\ UNCHANGED <<prop_log, calls, clean, terminal, busVars, frameVars>>

\* the future of the zone quantity has its result
VsslQtyKnown ==
    /\ vssl.initialise.pc = "wait_qty"
    /\ vssl.initialise.future_model_zone_qty = "done"
    /\ AfterCheck(check_zone_count(vssl))
    /\ UNCHANGED <<prop_log, calls, clean, terminal, busVars, frameVars>>

\* wait_for gives up: the first zone is disconnected and initialise raises
VsslQtyTimeout ==
    /\ vssl.initialise.pc = "wait_qty"
    /\ vssl.initialise.future_model_zone_qty = "pending"
    /\ AfterCheck([vssl EXCEPT !.initialise.pc = "closing",
                               !.initialise.error = "timeout",
                               !.initialise.future_model_zone_qty = "cancelled"])
    /\ UNCHANGED <<prop_log, calls, clean, terminal, busVars, frameVars>>

\* the disconnect() of the first zone returns and VsslCtrlException, or the
\* ZoneError of a zone, is raised
VsslDisconnected ==
    /\ vssl.initialise.pc = "closing"
    /\ vssl' = [vssl EXCEPT !.initialise.pc = "failed"]
    /\ zone' = [zone EXCEPT !.initialise.bravo_connected = FALSE]
    /\ api' = disconnect_end(api)
    /\ UNCHANGED <<prop_log, calls, clean, terminal, busVars, frameVars>>

\* except ZoneError: Vssl.disconnect() disconnects every zone
vssl_disconnect(v) ==
    [siblings_disconnect(v) EXCEPT !.initialise.pc = "closing",
                                   !.initialise.error = "ZoneError",
                                   !.initialise.disconnected_all = TRUE]

\* the initialise of the first zone has raised
VsslFirstZoneFailed ==
    /\ vssl.initialise.pc = "first_zone"
    /\ zone.initialise.pc = "failed"
    /\ AfterCheck(vssl_disconnect(vssl))
    /\ UNCHANGED <<prop_log, calls, clean, terminal, busVars, frameVars>>

\* the connections of another zone are made and its initialise starts the
\* poller and waits for the id
SiblingConnected(k) ==
    /\ k \in Siblings(vssl)
    /\ vssl.zones[k].pc = "wait_connected"
    /\ vssl' = [vssl EXCEPT !.zones[k].pc = "await_id",
                            !.zones[k].connected = TRUE,
                            !.zones[k].poller = "running"]
    /\ UNCHANGED <<zone, prop_log, connVars, busVars, frameVars>>

\* the device reports the id and the serial number of another zone, which
\* are those expected (ok) or not: the events are published
SiblingReport(k, ok) ==
    /\ k \in Siblings(vssl)
    /\ vssl.zones[k].pc = "await_id"
    /\ vssl.zones[k].connected
    /\ vssl' = [vssl EXCEPT !.zones[k].pc = IF ok THEN "reported" ELSE "mismatch"]
    /\ UNCHANGED <<zone, prop_log, connVars, busVars, frameVars>>

\* the initialise of another zone resumes with the results of its futures
SiblingChecked(k) ==
    /\ k \in Siblings(vssl)
    /\ vssl.zones[k].pc \in {"reported", "mismatch"}
    /\ vssl' = IF vssl.zones[k].pc = "reported"
               THEN [vssl EXCEPT !.zones[k].pc = "done",
                                 !.zones[k].initialised = TRUE]
               ELSE [vssl EXCEPT !.zones[k].pc = "failed",
                                 !.zones[k].connected = FALSE,
                                 !.zones[k].poller = "cancelled"]
    /\ UNCHANGED <<zone, prop_log, connVars, busVars, frameVars>>

\* gather raises the error of the first zone that failed
VsslGatherFailed ==
    /\ vssl.initialise.pc = "gather"
    /\ \E k \in Siblings(vssl) : vssl.zones[k].pc = "failed"
    /\ AfterCheck(vssl_disconnect(vssl))
    /\ UNCHANGED <<prop_log, calls, clean, terminal, busVars, frameVars>>

\* gather returns when every initialise has returned
VsslGatherDone ==
    /\ vssl.initialise.pc = "gather"
    /\ \A k \in Siblings(vssl) : vssl.zones[k].pc = "done"
    /\ vssl' = [vssl EXCEPT !.initialise.pc = "done"]
    /\ UNCHANGED <<zone, prop_log, connVars, busVars, frameVars>>

\* the status messages that have both the id and the serial number
FullReports == {m \in StatusReports : m.has_id /\ m.has_mc}

DeviceInit ==
    /\ ConnIdle
    /\ BusIdle
    /\ FrameIdle
    /\ zone = InitZone
    /\ \E n \in 0 .. MaxSiblings, qty \in PreConfigured :
          vssl = [InitVssl EXCEPT !.zones = Configured(n), !._model_zone_qty = qty]
    /\ prop_log = [owner |-> "none", name |-> "none", value |-> 0,
                   zone |-> InitZone, vssl |-> InitVssl, events |-> <<>>]

DeviceNext ==
    \/ VsslInitialiseStart
    \/ AlphaConnected
    \/ BravoConnected
    \/ InitialiseConnected
    \/ \E metadata \in FullReports : StatusReport(metadata)
    \/ \E zone_count \in KeyCounts : DeviceStatus(zone_count)
    \/ DeviceDeliverEvent
    \/ InitialiseGotId
    \/ InitialiseGotSerial
    \/ InitialiseFailed
    \/ VsslFirstZoneDone
    \/ VsslFirstZoneFailed
    \/ VsslQtyKnown
    \/ VsslQtyTimeout
    \/ VsslDisconnected
    \/ \E k \in 1 .. MaxSiblings : SiblingConnected(k)
    \/ \E k \in 1 .. MaxSiblings, ok \in BOOLEAN : SiblingReport(k, ok)
    \/ \E k \in 1 .. MaxSiblings : SiblingChecked(k)
    \/ VsslGatherFailed
    \/ VsslGatherDone

DeviceSpec == DeviceInit /\ [][DeviceNext]_vars

\* Vssl.initialise for a device of two zones while the protocol A connection
\* of the first zone is lost: its receive loop gets a read error and
\* reconnects
DeviceLossInit ==
    /\ DeviceInit
    /\ Len(vssl.zones) = 2
    /\ vssl._model_zone_qty <= 1

DeviceLossNext ==
    \/ DeviceNext
    \/ \E i \in Tasks : ReceiveStart(i)
    \/ \E i \in Tasks : SendStart(i)
    \/ \E i \in Tasks : KeepaliveStart(i)
    \/ \E i \in Tasks : ReceiveError(i)
    \/ \E i \in Tasks : ReconnectResume(i)
    \/ \E i \in Tasks : DeliverCancel(i)
    \/ \E i \in Tasks : KeepConnectedStart(i)
    \/ \E i \in Tasks : KeepConnectedOpened(i)

DeviceLossSpec == DeviceLossInit /\ [][DeviceLossNext]_vars

\* the poller of the first zone is cancelled and, once initialise has
\* raised, its connections are closed
FirstZoneDisconnected ==
    /\ zone.initialise.poller = "cancelled"
    /\ vssl.initialise.pc = "failed" =>
          /\ ~api.connected
          /\ api.open = {}
          /\ ~zone.initialise.bravo_connected

\* C24: a zone other than the first one has begun its initialise, is
\* connected or is initialised only if the first zone is initialised and the
\* zone quantity of the device is known; when the wait for the zone
\* quantity has timed out the first zone is disconnected, no other zone has
\* begun and initialise raises
C24_TwoPhase ==
    /\ \A k \in Siblings(vssl) :
          (vssl.zones[k].pc # "idle" \/ vssl.zones[k].connected
              \/ vssl.zones[k].initialised) =>
             /\ zone.initialised
             /\ vssl._model_zone_qty # 0
    /\ vssl.initialise.pc = "wait_qty" =>
          zone.initialised /\ vssl.initialise.future_model_zone_qty # "none"
    /\ vssl.initialise.error = "timeout" =>
          /\ vssl.initialise.pc \in {"closing", "failed"}
          /\ FirstZoneDisconnected
          /\ \A k \in Siblings(vssl) : vssl.zones[k] = Configured(MaxSiblings)[k]

\* the zone quantity came with a status message while initialise waited for
\* it, and another zone is connected
C24_Witness ==
    /\ vssl.initialise.pc = "gather"
    /\ vssl.initialise.future_model_zone_qty = "done"
    /\ vssl._model_zone_qty = 3
    /\ Len(vssl.zones) = 3
    /\ vssl.zones[2].connected

\* C25: initialise goes on to the other zones only if the number of zones
\* is at most the zone quantity of the device; otherwise it disconnects the
\* first zone and raises the error of the zone count, and no other zone has
\* begun its initialise, is connected or is initialised
C25_ZoneCount ==
    /\ (vssl.initialise.pc \in {"gather", "done"}
           \/ \E k \in Siblings(vssl) : vssl.zones[k].pc # "idle") =>
          Len(vssl.zones) <= vssl._model_zone_qty
    /\ vssl.initialise.error = "zone count" =>
          /\ vssl.initialise.pc \in {"closing", "failed"}
          /\ Len(vssl.zones) > vssl._model_zone_qty
          /\ FirstZoneDisconnected
          /\ \A k \in Siblings(vssl) : vssl.zones[k] = Configured(MaxSiblings)[k]

\* four zones were added, the device reported three bus source keys and
\* initialise has raised
C25_Witness ==
    /\ Len(vssl.zones) = 4
    /\ vssl._model_zone_qty = 3
    /\ vssl.initialise.future_model_zone_qty = "done"
    /\ vssl.initialise.pc = "failed"
    /\ vssl.initialise.error = "zone count"

ZoneFailure == vssl.initialise.pc = "failed" /\ vssl.initialise.error = "ZoneError"

\* C26: once initialise has raised the error of a zone, no zone is
\* connected, and from then on no zone becomes connected or initialised
C26_AllZonesStayDisconnected ==
    /\ [](ZoneFailure =>
            /\ ~api.connected
            /\ ~zone.initialise.bravo_connected
            /\ \A k \in Siblings(vssl) : ~vssl.zones[k].connected)
    /\ [][ZoneFailure =>
            /\ zone'.initialised = zone.initialised
            /\ \A k \in Siblings(vssl) :
                  vssl'.zones[k].initialised = vssl.zones[k].initialised]_vars

\* ---------------------------------------------------------------------------
\* Volume, from the setter to the change event (zone.py, api_alpha.py)
\* ---------------------------------------------------------------------------
MaxVolumeSets == 2
MaxRepeats == 1

\* the volumes the zone has cached when the first request is made
CachedVolumes == {0, 40, 100}
\* the values given to the volume setter
VolumeSets == {0 - 5, 40, 100, 150}

\* the volume frame of protocol A: action 6, length 3, zone, volume, command
VolumeFrame(z, vol, vol_cmd) == <<16, 6, 3, z.id, vol, vol_cmd>>

\* APIAlpha.response_action_06 for a normal volume change (vol_cmd 3); the
\* other commands update the volume settings and leave the zone volume alone
response_action_06(z, hexl) ==
    IF hexl[3] = 3 /\ hexl[6] = 3
    THEN Zone__set_property(z, "volume", hexl[5])
    ELSE [obj |-> z, events |-> <<>>]

\* the frames of the device that have not been received yet
PendingFrames == SubSeq(frames, Len(dispatched) + 1, Len(frames))
\* the requests the device has answered
Answered == Cardinality({k \in DOMAIN frames : ~frames[k].repeat})

\* the setter of Zone.volume: request_action_05 hands its command to send()
VolumeSet(vol) ==
    /\ Len(api.requested) < MaxVolumeSets
    /\ api' = [send(api, request_action_05(zone, vol)) EXCEPT
                  !.requested = Append(@, [builder |-> "05", arg |-> vol])]
    /\ UNCHANGED <<calls, clean, terminal, busVars, propVars, frameVars>>

\* one turn of _send_bytes: the oldest command of the queue is written
VolumeWrite ==
    /\ api.connected
    /\ api.writer_queue # <<>>
    /\ api' = [api EXCEPT !.writer_queue = Tail(@),
                          !.written = Append(@, Head(api.writer_queue))]
    /\ UNCHANGED <<calls, clean, terminal, busVars, propVars, frameVars>>

\* the device answers the oldest request it has not answered with the volume
\* it has set
DeviceEcho ==
    /\ Answered < Len(api.written)
    /\ LET command == api.written[Answered + 1]
       IN frames' = Append(frames, [data |-> VolumeFrame(zone, command[5], 3),
                                    repeat |-> FALSE])
    /\ UNCHANGED <<connVars, busVars, propVars, proto, wire, buffer, rx,
                   dispatched, eof, lost>>

\* the device sends its last volume frame once more
DeviceRepeat ==
    /\ frames # <<>>
    /\ Len(frames) - Answered < MaxRepeats
    /\ frames' = Append(frames, [data |-> frames[Len(frames)].data, repeat |-> TRUE])
    /\ UNCHANGED <<connVars, busVars, propVars, proto, wire, buffer, rx,
                   dispatched, eof, lost>>

\* _handle_response calls response_action_06 with the oldest frame that has
\* not been received
VolumeReceived ==
    /\ PendingFrames # <<>>
    /\ LET hexl == Head(PendingFrames).data
           r == response_action_06(zone, hexl)
       IN /\ zone' = r.obj
          /\ publish_tasks' = publish_tasks \o r.events
          /\ dispatched' = Append(dispatched, [handler |-> "response_action_06",
                                               data |-> hexl])
    /\ UNCHANGED <<vssl, prop_log, connVars, subscribers, event_queue, running,
                   bus_pc, futures, bus_log, proto, frames, wire, buffer, rx,
                   eof, lost>>

\* the connection right after connect() has returned; prop_log keeps the
\* zone as it is before the first request
VolumeInit ==
    /\ api = connect_success(InitApi)
    /\ calls = 1
    /\ clean = FALSE
    /\ terminal = FALSE
    /\ BusIdle
    /\ FrameIdle
    /\ \E v \in CachedVolumes : zone = [InitZone EXCEPT !._volume = v]
    /\ vssl = InitVssl
    /\ prop_log = [owner |-> "none", name |-> "none", value |-> 0,
                   zone |-> zone, vssl |-> InitVssl, events |-> <<>>]

VolumeNext ==
    \/ \E vol \in VolumeSets : VolumeSet(vol)
    \/ VolumeWrite
    \/ DeviceEcho
    \/ DeviceRepeat
    \/ VolumeReceived

VolumeSpec == VolumeInit /\ [][VolumeNext]_vars

\* the value a request for vol asks for
Asked(vol) == IF vol < 0 THEN 0 ELSE IF vol > 100 THEN 100 ELSE vol
\* the commands handed to send(), written or not
Commands == api.written \o api.writer_queue
\* the volume of the k-th frame received, and the cached volume before it
Echoed(k) == dispatched[k].data[5]
CachedBefore(k) == IF k = 1 THEN prop_log.zone._volume ELSE Echoed(k - 1)
\* the frames received that carried a volume other than the cached one
Changing == {k \in DOMAIN dispatched : Echoed(k) # CachedBefore(k)}

\* C28: a request to set the volume transmits the value clamped to 0..100
\* (100 for 150) and leaves the cached volume alone; the cached volume is the
\* one of the last frame received from the device; a frame with a volume
\* other than the cached one publishes exactly one VOLUME_CHANGE event with
\* that volume, and a frame with the cached volume publishes nothing.
C28_VolumeEndToEnd ==
    /\ Len(Commands) = Len(api.requested)
    /\ \A k \in DOMAIN api.requested :
          Commands[k] = <<16, 5, 3, zone.id, Asked(api.requested[k].arg), 3>>
    /\ zone._volume = IF dispatched = <<>> THEN prop_log.zone._volume
                      ELSE Echoed(Len(dispatched))
    /\ Len(publish_tasks) = Cardinality(Changing)
    /\ \A k \in Changing :
          publish_tasks[Cardinality({j \in Changing : j <= k})] =
             [type |-> "VOLUME_CHANGE", entity |-> zone.id, data |-> Echoed(k)]

\* 150 was requested with another volume than 100 cached; the device has
\* answered 100 twice and both frames have been received
C28_Witness ==
    /\ api.requested = <<[builder |-> "05", arg |-> 150]>>
    /\ prop_log.zone._volume # 100
    /\ Len(frames) = 2
    /\ Len(dispatched) = 2
    /\ zone._volume = 100
    /\ publish_tasks = <<[type |-> "VOLUME_CHANGE", entity |-> zone.id, data |-> 100]>>

\* ---------------------------------------------------------------------------
\* Track metadata, transport and group of a zone (track.py, transport.py,
\* group.py, zone.py)
\* ---------------------------------------------------------------------------
\* no change, no event
Same(z) == [obj |-> z, events |-> <<>>]
\* the result of r followed by that of s
Then(r, s) == [obj |-> s.obj, events |-> r.events \o s.events]

\* getattr(TrackMetadata.Events, key.upper() + "_CHANGE")
TrackChangeEvent(key) ==
    CASE key = "title" -> "track.title_change"
      [] key = "album" -> "track.album_change"
      [] key = "artist" -> "track.artist_change"
      [] key = "genre" -> "track.genre_change"
      [] key = "duration" -> "track.duration_change"
      [] key = "progress" -> "track.progress_change"
      [] key = "cover_art_url" -> "track.cover_art_url_change"
      [] key = "source" -> "track.source_change"
      [] key = "url" -> "track.url_change"
\* TrackMetadata.Events.CHANGE
TRACK_CHANGE == "track.change"

\* TrackMetadata._update_property
_update_property(z, key, value, ignore_transport_state) ==
    LET new_value == IF z.transport.state = STOP /\ ~ignore_transport_state
                     THEN TrackDefaults[key]
                     ELSE value
    IN IF z.track[key] # new_value
       THEN [obj |-> [z EXCEPT !.track[key] = new_value],
             events |-> <<[type |-> TrackChangeEvent(key), entity |-> z.id,
                           data |-> new_value],
                          [type |-> TRACK_CHANGE, entity |-> z.id,
                           data |-> <<key, new_value>>]>>]
       ELSE Same(z)

\* TrackMetadata.set_defaults, from the k-th key on
RECURSIVE track_set_defaults_from(_, _)
track_set_defaults_from(z, k) ==
    IF k > Len(TrackKeys) THEN Same(z)
    ELSE LET r == _update_property(z, TrackKeys[k], TrackDefaults[TrackKeys[k]], TRUE)
         IN Then(r, track_set_defaults_from(r.obj, k + 1))
track_set_defaults(z) == track_set_defaults_from(z, 1)

\* TrackMetadata._pull_from_zone, from the k-th key on; master is the zone
\* get_zone has returned
RECURSIVE _pull_from(_, _, _)
_pull_from(z, master, k) ==
    IF k > Len(TrackKeys) THEN Same(z)
    ELSE LET r == _update_property(z, TrackKeys[k], master.track[TrackKeys[k]], TRUE)
         IN Then(r, _pull_from(r.obj, master, k + 1))

\* ZoneTransport._default_on_state_stop
_default_on_state_stop(z, value, default) ==
    IF z.transport.state = STOP THEN default ELSE value

\* ZoneTransport._set_state: the event of the new state is published here
_set_state(z, state) ==
    IF z.transport.state # state /\ state \in {STOP, PLAY, PAUSE}
    THEN [obj |-> [z EXCEPT !.transport.state = state], log |-> TRUE,
          events |-> <<[type |-> CASE state = STOP -> "zone.transport.state_change.stop"
                                   [] state = PLAY -> "zone.transport.state_change.play"
                                   [] state = PAUSE -> "zone.transport.state_change.pause",
                        entity |-> z.id, data |-> TRUE]>>]
    ELSE [obj |-> z, log |-> FALSE, events |-> <<>>]

\* ZoneTransport._set_repeat
_set_repeat(z, val) ==
    LET v == _default_on_state_stop(z, val, TransportDefaults.repeat)
    IN IF z.transport.repeat # v /\ v \in 0 .. 2
       THEN [obj |-> [z EXCEPT !.transport.repeat = v], log |-> TRUE, events |-> <<>>]
       ELSE [obj |-> z, log |-> FALSE, events |-> <<>>]

\* ZoneTransport._set_bool_property, behind _set_shuffle, _set_next_flag and
\* _set_prev_flag
_set_bool_property(z, prop_key, new_value) ==
    LET v == _default_on_state_stop(z, new_value, TransportDefaults[prop_key])
    IN IF z.transport[prop_key] # v
       THEN [obj |-> [z EXCEPT !.transport[prop_key] = v], log |-> TRUE, events |-> <<>>]
       ELSE [obj |-> z, log |-> FALSE, events |-> <<>>]

\* getattr(self, "_set_" + key)(value) of ZoneTransport
transport_direct_setter(z, key, value) ==
    CASE key = "state" -> _set_state(z, value)
      [] key = "repeat" -> _set_repeat(z, value)
      [] OTHER -> _set_bool_property(z, key, value)

\* getattr(ZoneTransport.Events, property_name.upper() + "_CHANGE")
TransportChangeEvent(key) ==
    CASE key = "state" -> "zone.transport.state_change"
      [] key = "repeat" -> "zone.transport.repeat_change"
      [] key = "shuffle" -> "zone.transport.shuffle_change"
      [] key = "next_flag" -> "zone.transport.next_flag_change"
      [] key = "prev_flag" -> "zone.transport.prev_flag_change"

\* ZoneDataClass._set_property of ZoneTransport: every property has a direct
\* setter, and its return value decides whether the change event is published
ZoneTransport__set_property(z, property_name, new_value) ==
    LET r == transport_direct_setter(z, property_name, new_value)
    IN [obj |-> r.obj,
        events |-> r.events \o
                   IF r.log
                   THEN <<[type |-> TransportChangeEvent(property_name), entity |-> z.id,
                           data |-> r.obj.transport[property_name]]>>
                   ELSE <<>>]

\* the keys of ZoneTransport.DEFAULTS, in order
TransportKeys == <<"state", "repeat", "shuffle", "next_flag", "prev_flag">>

\* ZoneTransport.set_defaults, from the k-th key on: the direct setters are
\* called and their return values are dropped
RECURSIVE transport_set_defaults_from(_, _)
transport_set_defaults_from(z, k) ==
    IF k > Len(TransportKeys) THEN Same(z)
    ELSE LET key == TransportKeys[k]
             r == transport_direct_setter(z, key, TransportDefaults[key])
         IN Then([obj |-> r.obj, events |-> r.events],
                 transport_set_defaults_from(r.obj, k + 1))
transport_set_defaults(z) == transport_set_defaults_from(z, 1)

\* Zone._event_transport_state_stop
_event_transport_state_stop(z) ==
    LET r == track_set_defaults(z)
    IN Then(r, transport_set_defaults(r.obj))

\* ZoneGroup._set_source and ZoneDataClass._set_property("source", grs): 255
\* and every number that is no zone id stand for no group
ZoneGroup__set_property(z, grs) ==
    LET new_source == IF grs # 255 /\ grs \in ZoneIDs THEN grs ELSE None
    IN IF z.group.source # new_source
       THEN [obj |-> [z EXCEPT !.group.source = new_source],
             events |-> <<[type |-> "zone.group.source_change", entity |-> z.id,
                           data |-> new_source]>>]
       ELSE Same(z)

\* the cover art urls of the device: "coverart.jpg" and an absolute url
RelativeUrl == 1
AbsoluteUrl == 2
\* TrackMetadata.add_host_if_not_url: a relative url gets the host of the
\* zone and, for "coverart.jpg" with artist and album known, a query made of
\* both; an absolute url is returned as it is
add_host_if_not_url(z, url) ==
    IF url = None THEN None
    ELSE IF url = RelativeUrl
         THEN IF z.track["artist"] # None /\ z.track["album"] # None
              THEN 1000 * z.track["artist"] + 100 * z.track["album"] + 10 * z.id
              ELSE 10 * z.id
         ELSE url

\* the property setters of TrackMetadata
track_setter(z, key, value) ==
    CASE key = "cover_art_url" ->
            _update_property(z, key, add_host_if_not_url(z, value), FALSE)
      [] key = "source" ->
            IF value \in {NOT_STREAMING, SPOTIFY}
            THEN _update_property(z, key, value, FALSE)
            ELSE Same(z)
      [] OTHER -> _update_property(z, key, value, FALSE)

\* the metadata keys of TrackMetadata.KEY_MAP and ZoneTransport.KEY_MAP, in order
TrackKeyMap == <<"duration", "title", "album", "artist", "cover_art_url",
                 "source", "genre", "url">>
TransportKeyMap == <<"next_flag", "prev_flag", "shuffle", "repeat">>

\* TrackMetadata._map_response_dict, from the k-th key on: nothing is taken
\* from the device while the zone is a member of a group
RECURSIVE track_map_response_dict(_, _, _)
track_map_response_dict(z, track_data, k) ==
    IF k > Len(TrackKeyMap) \/ z.group.source # None THEN Same(z)
    ELSE LET key == TrackKeyMap[k]
             r == IF key \in DOMAIN track_data
                  THEN track_setter(z, key, track_data[key])
                  ELSE Same(z)
         IN Then(r, track_map_response_dict(r.obj, track_data, k + 1))

\* ZoneTransport._map_response_dict, from the k-th key on
RECURSIVE transport_map_response_dict(_, _, _)
transport_map_response_dict(z, track_data, k) ==
    IF k > Len(TransportKeyMap) THEN Same(z)
    ELSE LET key == TransportKeyMap[k]
             r == IF key \in DOMAIN track_data
                  THEN ZoneTransport__set_property(z, key, track_data[key])
                  ELSE Same(z)
         IN Then(r, transport_map_response_dict(r.obj, track_data, k + 1))

\* APIBravo.response_action_2A for a PlayView message
response_action_2A(z, track_data) ==
    LET r == track_map_response_dict(z, track_data, 1)
    IN Then(r, transport_map_response_dict(r.obj, track_data, 1))

\* the track data of the device: a track of a streaming service with its
\* flags, and the next title with absolute cover art
TrackData1 ==
    [key \in Range(TrackKeyMap) \cup Range(TransportKeyMap) |->
        CASE key = "source" -> SPOTIFY
          [] key = "cover_art_url" -> RelativeUrl
          [] key = "repeat" -> REPEAT_ALL
          [] key \in {"next_flag", "shuffle"} -> TRUE
          [] key = "prev_flag" -> FALSE
          [] OTHER -> 1]
TrackData2 ==
    [key \in {"title", "cover_art_url"} |->
        IF key = "title" THEN 2 ELSE AbsoluteUrl]
TrackDatas == {TrackData1, TrackData2}

\* TrackMetadata._update_property_from_group_master, called n times
RECURSIVE _update_property_from_group_master(_, _, _)
_update_property_from_group_master(z, data, n) ==
    IF n = 0 THEN Same(z)
    ELSE LET r == track_setter(z, data[1], data[2])
         IN Then(r, _update_property_from_group_master(r.obj, data, n - 1))

\* Vssl.get_zone: the zones of vssl.zones and the zone itself are managed
Managed(zone_index) == zone_index = zone.id \/ \E k \in DOMAIN vssl.zones :
                                                 vssl.zones[k].id = zone_index
get_zone(zone_index) ==
    IF zone_index = zone.id THEN zone
    ELSE vssl.zones[CHOOSE k \in DOMAIN vssl.zones : vssl.zones[k].id = zone_index]

\* TrackMetadata._pull_from_zone
_pull_from_zone(z, zone_index) ==
    IF Managed(zone_index) THEN _pull_from(z, get_zone(zone_index), 1) ELSE Same(z)

\* Zone._event_group_source_change: the subscriptions of the bus after it;
\* the callback is named by the id of its zone
source_change_subscribers(subs, z, source) ==
    IF source = None
    THEN unsubscribe(subs, TRACK_CHANGE, z.id)
    ELSE subscribe(subs, TRACK_CHANGE, z.id, source, FALSE)
\* a handler that subscribes and leaves the track alone
_event_group_source_change_subscribe_only(z, source) == Same(z)
\* Zone._event_group_source_change: the zone after it and the events published
_event_group_source_change(z, source) ==
    IF source = None THEN Same(z) ELSE _pull_from_zone(z, source)

MaxTrackFrames == 2

\* the zone with the id zone_index
ZoneOf(zone_index) == get_zone(zone_index)
\* the ids of the zones that are managed
ManagedIds == {zone.id} \cup {vssl.zones[k].id : k \in DOMAIN vssl.zones}
\* the values of a group response: the master, a zone of the device that is
\* not managed, and no group
GroupSources == {1, 3, 255}

\* a handler has run for the zone zone_index with result r: the zone is
\* replaced, the events are published after those in rest, and the call is
\* logged with the zones as they were before it
Handled(zone_index, r, handler, data, rest) ==
    /\ IF zone_index = zone.id
       THEN /\ zone' = r.obj
            /\ vssl' = vssl
       ELSE /\ zone' = zone
            /\ vssl' = [vssl EXCEPT
                          !.zones[CHOOSE k \in DOMAIN vssl.zones :
                                     vssl.zones[k].id = zone_index] = r.obj]
    /\ publish_tasks' = rest \o r.events
    /\ prop_log' = [owner |-> zone_index, name |-> handler, value |-> data,
                    zone |-> zone, vssl |-> vssl, events |-> r.events]

\* the device reports the transport state of a zone (response_action_07)
TransportStateFrame(zone_index, state) ==
    /\ Len(dispatched) < MaxTrackFrames
    /\ Handled(zone_index, ZoneTransport__set_property(ZoneOf(zone_index), "state", state),
               "response_action_07", state, publish_tasks)
    /\ dispatched' = Append(dispatched, [handler |-> "response_action_07", data |-> state])
    /\ UNCHANGED <<connVars, subscribers, event_queue, running, bus_pc, futures,
                   bus_log, proto, frames, wire, buffer, rx, eof, lost>>

\* the device reports the track of a zone (response_action_2A)
TrackFrame(zone_index, track_data) ==
    /\ Len(dispatched) < MaxTrackFrames
    /\ Handled(zone_index, response_action_2A(ZoneOf(zone_index), track_data),
               "response_action_2A", track_data, publish_tasks)
    /\ dispatched' = Append(dispatched, [handler |-> "response_action_2A",
                                         data |-> track_data])
    /\ UNCHANGED <<connVars, subscribers, event_queue, running, bus_pc, futures,
                   bus_log, proto, frames, wire, buffer, rx, eof, lost>>

\* the device reports the group source of the zone (response_action_4C)
GroupFrame(grs) ==
    /\ Len(dispatched) < MaxTrackFrames
    /\ Handled(zone.id, ZoneGroup__set_property(zone, grs),
               "response_action_4C", grs, publish_tasks)
    /\ dispatched' = Append(dispatched, [handler |-> "response_action_4C", data |-> grs])
    /\ UNCHANGED <<connVars, subscribers, event_queue, running, bus_pc, futures,
                   bus_log, proto, frames, wire, buffer, rx, eof, lost>>

\* the subscriptions to the track changes of entity
TrackSubscriptions(entity) ==
    SelectSeq(subscribers[TRACK_CHANGE], LAMBDA r : r.entity = entity)

\* process_events takes the oldest event and awaits the callbacks subscribed
\* to it: those of Zone.initialise for the stop of the transport and for the
\* group source, and those of the group members for the track changes of
\* their master; the callback of a transport state change only requests the
\* track from the device
TrackDeliverEvent ==
    /\ publish_tasks # <<>>
    /\ LET event == Head(publish_tasks)
           rest == Tail(publish_tasks)
       IN CASE event.type = "zone.transport.state_change.stop" ->
                 /\ Handled(event.entity, _event_transport_state_stop(ZoneOf(event.entity)),
                            "_event_transport_state_stop", event.data, rest)
                 /\ subscribers' = subscribers
            [] event.type = "zone.group.source_change" ->
                 /\ Handled(event.entity,
                            _event_group_source_change(ZoneOf(event.entity), event.data),
                            "_event_group_source_change", event.data, rest)
                 /\ subscribers' = source_change_subscribers(subscribers,
                                                             ZoneOf(event.entity),
                                                             event.data)
            [] event.type = TRACK_CHANGE /\ TrackSubscriptions(event.entity) # <<>> ->
                 /\ Handled(zone.id,
                            _update_property_from_group_master(
                               zone, event.data, Len(TrackSubscriptions(event.entity))),
                            "_update_property_from_group_master",
                            [entity |-> event.entity, data |-> event.data], rest)
                 /\ subscribers' = subscribers
            [] OTHER ->
                 /\ Handled(event.entity, Same(ZoneOf(event.entity)), "none",
                            event.data, rest)
                 /\ subscribers' = subscribers
    /\ UNCHANGED <<connVars, event_queue, running, bus_pc, futures, bus_log, frameVars>>

\* a zone that plays the track of track_data
Playing(z, track_data) ==
    response_action_2A(ZoneTransport__set_property(z, "state", PLAY).obj, track_data).obj

\* two zones of a device after Zone.initialise: zone 2 and, in vssl.zones,
\* zone 1; each of them is as created or plays a track
TrackInit ==
    /\ ConnIdle
    /\ FrameIdle
    /\ subscribers = [t \in {TRACK_CHANGE} |-> <<>>]
    /\ event_queue = <<>>
    /\ publish_tasks = <<>>
    /\ running = FALSE
    /\ bus_pc = "start"
    /\ futures = [f \in FutureIds |-> [state |-> "none", result |-> 0, created |-> 0]]
    /\ bus_log = [published |-> <<>>, delivered |-> [c \in PlainCallbacks |-> <<>>],
                  stopped |-> FALSE, after_stop |-> FALSE]
    /\ \E z \in {[InitZone EXCEPT !.id = 2],
                 Playing([InitZone EXCEPT !.id = 2], TrackData2)} : zone = z
    /\ \E m \in {NewZone(1, 1), Playing(NewZone(1, 1), TrackData1)} :
          vssl = [InitVssl EXCEPT !.zones = <<m>>]
    /\ prop_log = [owner |-> 0, name |-> "none", value |-> 0,
                   zone |-> zone, vssl |-> vssl, events |-> <<>>]

TrackNext ==
    \/ \E i \in ManagedIds, state \in {STOP, PLAY, PAUSE} : TransportStateFrame(i, state)
    \/ \E i \in ManagedIds, d \in TrackDatas : TrackFrame(i, d)
    \/ \E grs \in GroupSources : GroupFrame(grs)
    \/ TrackDeliverEvent

TrackSpec == TrackInit /\ [][TrackNext]_vars

\* the last handler was that of a group source change to a managed zone
PulledFromMaster ==
    /\ prop_log.name = "_event_group_source_change"
    /\ prop_log.value # None
    /\ \E k \in DOMAIN prop_log.vssl.zones : prop_log.vssl.zones[k].id = prop_log.value
\* the master as it was when the handler ran
MasterBefore ==
    prop_log.vssl.zones[CHOOSE k \in DOMAIN prop_log.vssl.zones :
                           prop_log.vssl.zones[k].id = prop_log.value]
\* the track fields in which the zone differed from its master
PulledKeys == {key \in Range(TrackKeys) :
                  prop_log.zone.track[key] # MasterBefore.track[key]}
\* the events of the last handler with the type event_type
EventsOf(event_type) ==
    {k \in DOMAIN prop_log.events : prop_log.events[k].type = event_type}

HandledBefore ==
    IF prop_log.owner = prop_log.zone.id THEN prop_log.zone
    ELSE prop_log.vssl.zones[CHOOSE k \in DOMAIN prop_log.vssl.zones :
                                prop_log.vssl.zones[k].id = prop_log.owner]
HandledAfter == get_zone(prop_log.owner)
\* the transport flags
TransportFlags == {"repeat", "shuffle", "next_flag", "prev_flag"}

\* C30: when the handler of the stop of the transport has run for a zone,
\* every track field and every transport flag of the zone has its default,
\* and the handler has published the change event of every track field and
\* of every transport flag that did not have its default before.
C30_StopResets ==
    prop_log.name = "_event_transport_state_stop" =>
       /\ HandledAfter.track = TrackDefaults
       /\ \A flag \in TransportFlags :
             HandledAfter.transport[flag] = TransportDefaults[flag]
       /\ \A key \in Range(TrackKeys) :
             HandledBefore.track[key] # TrackDefaults[key] =>
                \E k \in EventsOf(TrackChangeEvent(key)) :
                   prop_log.events[k].data = TrackDefaults[key]
       /\ \A flag \in TransportFlags :
             HandledBefore.transport[flag] # TransportDefaults[flag] =>
                EventsOf(TransportChangeEvent(flag)) # {}

\* ---------------------------------------------------------------------------
\* Event bus: subscribers without an entity
\* ---------------------------------------------------------------------------
\* the events that process_events has taken off the queue
Processed == Len(bus_log.published) - Len(event_queue) - Len(publish_tasks)
\* the future f waits with a subscription made without an entity
WaitsForAnyEntity(f) ==
    /\ futures[f].state = "pending"
    /\ \E k \in DOMAIN subscribers["a"] :
          subscribers["a"][k] = [cb |-> f, entity |-> ENone, once |-> TRUE]

\* C31: a future registered without an entity is resolved by the first event
\* of its event name that is processed after its registration, whatever the
\* entity of the event: while it waits, no event published after its
\* creation has been processed.
C31_NoEntityReceivesAll ==
    \A f \in FutureIds : WaitsForAnyEntity(f) => Processed <= futures[f].created

\* ---------------------------------------------------------------------------
\* Zone quantity inferred from the device status (core.py, api_alpha.py)
\* ---------------------------------------------------------------------------
MaxStatus == 2

\* DeviceStatusExtKeys: the keys of a device status message, as characters
BusSrcKey(n) == <<"B", n, "S", "r", "c">>
BusSrcKeys == {BusSrcKey(n) : n \in {"1", "2", "3", "4", "5", "6"}}
StatusKeys == BusSrcKeys \cup {<<"B", "1", "N", "m">>, <<"d", "e", "v">>}

\* str.startswith("B") and str.endswith("Src")
startswith_B(key) == Len(key) >= 1 /\ key[1] = "B"
endswith_Src(key) ==
    Len(key) >= 3 /\ SubSeq(key, Len(key) - 2, Len(key)) = <<"S", "r", "c">>

\* the sum of _infer_model_zone_qty over the keys of the message
zone_count(data) == Cardinality({key \in data : startswith_B(key) /\ endswith_Src(key)})

\* a device status message arrives: response_action_00_00 infers the quantity
InferStatus(data) ==
    /\ Len(dispatched) < MaxStatus
    /\ LET r == _infer_model_zone_qty(vssl, zone_count(data))
       IN /\ vssl' = r.obj
          /\ publish_tasks' = publish_tasks \o r.events
          /\ prop_log' = [owner |-> "vssl", name |-> "model_zone_qty", value |-> data,
                          zone |-> zone, vssl |-> vssl, events |-> r.events]
    /\ dispatched' = Append(dispatched, [handler |-> "response_action_00_00",
                                         data |-> <<>>])
    /\ UNCHANGED <<zone, connVars, subscribers, event_queue, running, bus_pc,
                   futures, bus_log, proto, frames, wire, buffer, rx, eof, lost>>

\* a Vssl object with or without a model given to its constructor
InferInit ==
    /\ ConnIdle
    /\ BusIdle
    /\ FrameIdle
    /\ zone = InitZone
    /\ \E qty \in PreConfigured : vssl = [InitVssl EXCEPT !._model_zone_qty = qty]
    /\ prop_log = [owner |-> "none", name |-> "none", value |-> {},
                   zone |-> zone, vssl |-> vssl, events |-> <<>>]

InferNext == \E data \in SUBSET StatusKeys : InferStatus(data)

InferSpec == InferInit /\ [][InferNext]_vars

\* the keys B1Src .. B6Src of the last status message
ReportedBuses == Cardinality(prop_log.value \cap BusSrcKeys)

StepInputs == {1, 2, 5, 100}

\* raise and lower the volume by one
request_action_05_raise(z) == _add_zone_id_to_request(<<16, 5, 3, 0, 255, 3>>, z)
request_action_05_lower(z) == _add_zone_id_to_request(<<16, 5, 3, 0, 254, 3>>, z)

\* a raise that always sets the volume
volume_raise_by_set(z, step) == request_action_05(z, Zone_volume(z) + step)
\* Zone.volume_raise: the command it hands to send()
volume_raise(z, step) ==
    IF step > 1
    THEN request_action_05(z, Zone_volume(z) + step)
    ELSE request_action_05_raise(z)
\* Zone.volume_lower
volume_lower(z, step) ==
    IF step > 1
    THEN request_action_05(z, Zone_volume(z) - step)
    ELSE request_action_05_lower(z)

VolumeRaise(step) ==
    /\ Len(api.requested) < MaxVolumeSets
    /\ api' = [send(api, volume_raise(zone, step)) EXCEPT
                  !.requested = Append(@, [builder |-> "raise", arg |-> step])]
    /\ UNCHANGED <<calls, clean, terminal, busVars, propVars, frameVars>>

VolumeLower(step) ==
    /\ Len(api.requested) < MaxVolumeSets
    /\ api' = [send(api, volume_lower(zone, step)) EXCEPT
                  !.requested = Append(@, [builder |-> "lower", arg |-> step])]
    /\ UNCHANGED <<calls, clean, terminal, busVars, propVars, frameVars>>

StepNext ==
    \/ \E step \in StepInputs : VolumeRaise(step)
    \/ \E step \in StepInputs : VolumeLower(step)

StepSpec == VolumeInit /\ [][StepNext]_vars

\* C33: a raise or a lower by one step queues the relative command (value
\* byte 255 or 254, the same bytes for every cached volume); a raise or a
\* lower by more than one step queues a set-volume command with the cached
\* volume plus or minus the step, clamped to 0..100; the cached volume is the
\* one the zone had before the calls.
C33_VolumeSteps ==
    /\ zone = prop_log.zone
    /\ Len(api.writer_queue) = Len(api.requested)
    /\ \A k \in DOMAIN api.requested :
          LET step == api.requested[k].arg
              up == api.requested[k].builder = "raise"
              value == IF step = 1
                       THEN IF up THEN 255 ELSE 254
                       ELSE Asked(IF up THEN prop_log.zone._volume + step
                                  ELSE prop_log.zone._volume - step)
          IN api.writer_queue[k] = <<16, 5, 3, zone.id, value, 3>>

\* with 40 cached, a raise by one and then a lower by five have been called
C33_Witness ==
    /\ zone._volume = 40
    /\ api.requested = <<[builder |-> "raise", arg |-> 1],
                         [builder |-> "lower", arg |-> 5]>>
    /\ api.writer_queue = <<<<16, 5, 3, zone.id, 255, 3>>, <<16, 5, 3, zone.id, 35, 3>>>>


\* ---------------------------------------------------------------------------
\* Volume settings in the status 09 message (settings.py, api_alpha.py)
\* ---------------------------------------------------------------------------
MaxSettingFrames == 2

\* the values of a status message are texts: sequences of decimal digits
RECURSIVE int(_)
int(text) ==
    IF text = <<>> THEN 0
    ELSE 10 * int(SubSeq(text, 1, Len(text) - 1)) + text[Len(text)]

\* VolumeSettings.KEY_MAP, in its order
VolumeKeyMap ==
    <<[ext |-> "vold", prop |-> "default_on"],
      [ext |-> "voll", prop |-> "max_left"],
      [ext |-> "volr", prop |-> "max_right"]>>

\* VolumeSettings.Events
VolumeSettingEvent(prop) ==
    CASE prop = "default_on" -> "DEFAULT_ON_CHANGE"
      [] prop = "max_left" -> "MAX_LEFT_CHANGE"
      [] prop = "max_right" -> "MAX_RIGHT_CHANGE"

\* VolumeSettings._set_default_on, _set_max_left, _set_max_right: log is the
\* return value
VolumeSettings_direct_setter(z, prop, vol) ==
    LET v == clamp_volume(int(vol))
    IN IF z.volume_settings[prop] # v
       THEN [obj |-> [z EXCEPT !.volume_settings[prop] = v], log |-> TRUE]
       ELSE [obj |-> z, log |-> FALSE]

\* VolumeSettings._map_response_dict: the direct setter of every key of the
\* message is called, its return value is dropped
RECURSIVE VolumeSettings__map_response_dict_from(_, _, _)
VolumeSettings__map_response_dict_from(z, volume_data, k) ==
    IF k > Len(VolumeKeyMap) THEN [obj |-> z, events |-> <<>>]
    ELSE LET m == VolumeKeyMap[k]
             r == IF m.ext \in DOMAIN volume_data
                  THEN VolumeSettings_direct_setter(z, m.prop, volume_data[m.ext])
                  ELSE [obj |-> z, log |-> FALSE]
         IN VolumeSettings__map_response_dict_from(r.obj, volume_data, k + 1)
VolumeSettings__map_response_dict(z, volume_data) ==
    VolumeSettings__map_response_dict_from(z, volume_data, 1)

\* ZoneSettings._set_mono through ZoneDataClass._set_property
ZoneSettings__set_mono(z, mono) ==
    IF z._mono # mono /\ mono \in {Stereo, Mono}
    THEN [obj |-> [z EXCEPT !._mono = mono],
          events |-> <<[type |-> "MONO_CHANGE", entity |-> z.id, data |-> mono]>>]
    ELSE [obj |-> z, events |-> <<>>]

\* APIAlpha.response_action_00_09 for a message with the keys mono, vold,
\* voll and volr
response_action_00_09(z, metadata) ==
    LET m == IF "mono" \in DOMAIN metadata
             THEN ZoneSettings__set_mono(z, int(metadata["mono"]))
             ELSE [obj |-> z, events |-> <<>>]
        v == VolumeSettings__map_response_dict(m.obj, metadata)
    IN [obj |-> v.obj, events |-> m.events \o v.events]

\* the texts the device reports for a volume setting and for mono
VolumeTexts == {<<0>>, <<7, 5>>, <<1, 5, 0>>}
MonoTexts == {<<1>>}
VolumeStatusKeys == {"vold", "voll", "volr"}
StatusMessages ==
    UNION {[keys -> VolumeTexts] : keys \in SUBSET VolumeStatusKeys}
      \cup UNION {{[k \in keys \cup {"mono"} |-> IF k = "mono" THEN t ELSE f[k]] :
                      f \in [keys -> VolumeTexts], t \in MonoTexts} :
                  keys \in SUBSET VolumeStatusKeys}

\* a status 09 message arrives
Status09(metadata) ==
    /\ Len(dispatched) < MaxSettingFrames
    /\ LET r == response_action_00_09(zone, metadata)
       IN /\ zone' = r.obj
          /\ publish_tasks' = publish_tasks \o r.events
          /\ prop_log' = [owner |-> "settings.volume", name |-> "response_action_00_09",
                          value |-> metadata, zone |-> zone, vssl |-> vssl,
                          events |-> r.events]
    /\ dispatched' = Append(dispatched, [handler |-> "response_action_00_09",
                                         data |-> <<>>])
    /\ UNCHANGED <<vssl, connVars, subscribers, event_queue, running, bus_pc,
                   futures, bus_log, proto, frames, wire, buffer, rx, eof, lost>>

SettingsInit ==
    /\ ConnIdle
    /\ BusIdle
    /\ FrameIdle
    /\ zone = InitZone
    /\ vssl = InitVssl
    /\ prop_log = [owner |-> "none", name |-> "none", value |-> <<>>,
                   zone |-> zone, vssl |-> vssl, events |-> <<>>]

SettingsNext == \E metadata \in StatusMessages : Status09(metadata)

SettingsSpec == SettingsInit /\ [][SettingsNext]_vars

\* the events of one type the last handler has published
SettingEvents(prop) ==
    SelectSeq(prop_log.events, LAMBDA e : e.type = VolumeSettingEvent(prop))

\* C34: a status 09 message that changes the stored max_left, max_right or
\* default_on publishes exactly one change event of that setting with the new
\* value, and publishes none for a setting it leaves as it was.
C34_SettingsEvents ==
    prop_log.name = "response_action_00_09" =>
       \A prop \in {"default_on", "max_left", "max_right"} :
          IF zone.volume_settings[prop] # prop_log.zone.volume_settings[prop]
          THEN SettingEvents(prop) =
                  <<[type |-> VolumeSettingEvent(prop), entity |-> zone.id,
                     data |-> zone.volume_settings[prop]]>>
          ELSE SettingEvents(prop) = <<>>


\* ---------------------------------------------------------------------------
\* Acknowledgements and frames with an unknown opcode (api_alpha.py, api_bravo.py)
\* ---------------------------------------------------------------------------
\* an opcode for which neither class has a method response_action_<opcode>
UnknownOpcode == 119

\* frames of protocol A with the length byte 1, with and without a known opcode
AckFrames(p) ==
    IF p = "alpha"
    THEN { <<16, 22, 1, 12>>, <<16, 25, 1, 66>>, <<16, UnknownOpcode, 1, 0>> }
    ELSE {}

\* frames with an unknown opcode: without a payload, with a text and with
\* bytes that are not ASCII
UnknownFrames(p) ==
    IF p = "alpha"
    THEN { <<16, UnknownOpcode, 0>>, <<16, UnknownOpcode, 2, 12, 65>>,
           <<16, UnknownOpcode, 2, 12, 200>> }
    ELSE { <<170, 170, 2, 0, UnknownOpcode, 0, 0, 0, 0, 0>>,
           <<170, 170, 2, 0, UnknownOpcode, 0, 0, 0, 0, 1, 67>>,
           <<170, 170, 2, 0, UnknownOpcode, 0, 0, 0, 0, 1, 200>> }

DispatchInit ==
    /\ proto \in Protocols
    /\ frames \in UNION { [1..n -> AckFrames(proto) \cup UnknownFrames(proto)
                                      \cup WellFormedFrames(proto)] :
                            n \in 0..MaxFrames }
    /\ wire = Concat(frames)
    /\ buffer = <<>>
    /\ rx = InitRx
    /\ dispatched = <<>>
    /\ eof = FALSE
    /\ lost = [n |-> 0, partial |-> FALSE]
    /\ ConnIdle
    /\ BusIdle
    /\ PropIdle

DispatchNext ==
    \/ \E n \in ChunkSizes : FeedChunk(n)
    \/ ReadFirstByte
    \/ ReadHeader
    \/ ReadPayload

DispatchSpec == DispatchInit /\ [][DispatchNext]_vars

\* every frame handed over so far is an acknowledgement or has an unknown opcode
OnlyAckOrUnknown ==
    \A k \in DOMAIN dispatched :
       dispatched[k].data \in AckFrames(proto) \cup UnknownFrames(proto)

C36_MuteEvents ==
    (prop_log.owner = "zone" /\ prop_log.name = "mute") =>
       /\ \A k \in DOMAIN prop_log.events :
             prop_log.events[k].type = "MUTE_CHANGE" =>
                prop_log.events[k].data = prop_log.value
       /\ prop_log.value = prop_log.zone._mute => prop_log.events = <<>>


\* ---------------------------------------------------------------------------
\* Group members and the track of their master (zone.py, event_bus.py, track.py)
\* ---------------------------------------------------------------------------
\* three zones of a device: zone 2 is a member of the group of zone 1, the
\* handler of that group source change has run (zone 2 is subscribed to the
\* track changes of zone 1 and has its track), zone 2 is stopped or plays,
\* and zone 3 is in no group
MirrorInit ==
    /\ ConnIdle
    /\ FrameIdle
    /\ subscribers = [t \in {TRACK_CHANGE} |->
                         <<[cb |-> 2, entity |-> 1, once |-> FALSE]>>]
    /\ event_queue = <<>>
    /\ publish_tasks = <<>>
    /\ running = FALSE
    /\ bus_pc = "start"
    /\ futures = [f \in FutureIds |-> [state |-> "none", result |-> 0, created |-> 0]]
    /\ bus_log = [published |-> <<>>, delivered |-> [c \in PlainCallbacks |-> <<>>],
                  stopped |-> FALSE, after_stop |-> FALSE]
    /\ \E m \in {NewZone(1, 1), Playing(NewZone(1, 1), TrackData1)},
          state \in {STOP, PLAY} :
          /\ vssl = [InitVssl EXCEPT !.zones = <<m, NewZone(3, 3)>>]
          /\ zone = _pull_from(
                       ZoneTransport__set_property(
                          [InitZone EXCEPT !.id = 2, !.group.source = 1],
                          "state", state).obj, m, 1).obj
    /\ prop_log = [owner |-> 0, name |-> "none", value |-> 0,
                   zone |-> zone, vssl |-> vssl, events |-> <<>>]

MirrorSpec == MirrorInit /\ [][TrackNext]_vars

\* the handler of every group source change reported so far has run
NoSourceChangePending ==
    \A k \in DOMAIN publish_tasks : publish_tasks[k].type # "zone.group.source_change"

\* C37: when the handlers of the group source changes have run, a track
\* change of another zone modifies the track of the zone only if that zone is
\* the current group source of the zone: not after the source has changed to
\* another master, and not after the zone has left its group.
C37_OneMaster ==
    (/\ prop_log.name = "_update_property_from_group_master"
     /\ NoSourceChangePending
     /\ zone.track # prop_log.zone.track)
       => prop_log.value.entity = zone.group.source


\* ---------------------------------------------------------------------------
\* Event bus: futures that have timed out (event_bus.py)
\* ---------------------------------------------------------------------------
\* the subscription of the callback of the future f
FutureSubscription(f) ==
    subscribers["a"][CHOOSE k \in DOMAIN subscribers["a"] : subscribers["a"][k].cb = f]

\* wait_future: asyncio.wait_for reaches its timeout, cancels the future and
\* raises TimeoutError (which wait_for turns into timeout_result); the
\* subscription of the future stays. The record of the future notes the number
\* of events published so far and the entity of its subscription.
WaitFutureTimeout(f) ==
    /\ futures[f].state = "pending"
    /\ futures' = [futures EXCEPT ![f] =
                      [state |-> "cancelled", result |-> 0, created |-> @.created,
                       timed_out |-> Len(bus_log.published),
                       entity |-> FutureSubscription(f).entity]]
    /\ UNCHANGED <<subscribers, event_queue, publish_tasks, running, bus_pc, bus_log,
                   connVars, propVars, frameVars>>

\* a bus with two subscribers of the event: p for the entity z1 and, for
\* every event, q
TimeoutInit ==
    /\ subscribers = [t \in EventTypes |->
                         IF t = "a"
                         THEN <<[cb |-> "p", entity |-> "z1", once |-> FALSE]>>
                         ELSE <<[cb |-> "q", entity |-> WILDCARD, once |-> FALSE]>>]
    /\ event_queue = <<>>
    /\ publish_tasks = <<>>
    /\ running = FALSE
    /\ bus_pc = "start"
    /\ futures = [f \in FutureIds |-> [state |-> "none", result |-> 0, created |-> 0]]
    /\ bus_log = [published |-> <<>>, delivered |-> [c \in PlainCallbacks |-> <<>>],
                  stopped |-> FALSE, after_stop |-> FALSE]
    /\ ConnIdle
    /\ PropIdle
    /\ FrameIdle

TimeoutNext ==
    \/ BusStart
    \/ ProcessEvent
    \/ \E f \in FutureIds, e \in {ENone, "z1"} : Future(f, e)
    \/ \E f \in FutureIds : WaitFutureTimeout(f)
    \/ \E e \in PublishEntities : Publish(e)
    \/ \E e \in PublishAsyncEntities : PublishAsync(e)
    \/ RunPublishTask

TimeoutSpec == TimeoutInit /\ [][TimeoutNext]_vars

\* the future f has timed out
TimedOut(f) == futures[f].state = "cancelled"
\* the events published after the timeout of f that its subscription matches
AwaitedAfterTimeout(f) ==
    {k \in (futures[f].timed_out + 1)..Len(bus_log.published) :
        Matches(bus_log.published[k], futures[f].entity)}
\* the plain callback c has been invoked for the event number k
DeliveredTo(c, k) ==
    \E j \in DOMAIN bus_log.delivered[c] : bus_log.delivered[c][j].data = k
\* the plain callbacks subscribed to an event of the entity
SubscribedTo(entity) ==
    {r.cb : r \in {x \in Range(subscribers["a"]) \cup Range(subscribers[WILDCARD]) :
                      x.cb \in PlainCallbacks /\ Matches(entity, x.entity)}}

\* C38: when a future has timed out and every event published has been
\* processed, each event published after the timeout that the subscription of
\* the future matches has been delivered to every other subscriber of it, and
\* if there was such an event the subscription of the future is gone.
C38_TimedOutFuture ==
    \A f \in FutureIds :
       (TimedOut(f) /\ event_queue = <<>> /\ publish_tasks = <<>>) =>
          /\ \A k \in AwaitedAfterTimeout(f) :
                \A c \in SubscribedTo(bus_log.published[k]) : DeliveredTo(c, k)
          /\ AwaitedAfterTimeout(f) # {} => ~IsSubscribed(f)


\* ---------------------------------------------------------------------------
\* A connected connection is whole (api_base.py)
\* ---------------------------------------------------------------------------
\* C39: while the connection reports connected it has the reader and the
\* writer of one socket, that socket is open, and a receive loop, a send loop
\* and a keepalive loop are running.
C39_ConnectedIsWhole ==
    api.connected =>
       /\ api.reader # None
       /\ api.writer # None
       /\ api.reader = api.writer
       /\ api.writer \in api.open
       /\ \A k \in LoopKinds : RunningOf(k) # {}

====
